---- MODULE Spec2Model ----
(***************************************************************************)
(* A model of the SystemVerilog recursive-descent parser of                *)
(* src/svlog/parser.rs: the token cursor (queue, peek, bump), the          *)
(* diagnostic sink, the two recovery algorithms and the structural         *)
(* parsers.  Parsing functions are operators on a parser record            *)
(*   p = [input, queue, diagnostics, last_span]                            *)
(* that return [p, res, val]; the loops of parse_source_text,              *)
(* parse_module_decl and parse_interface_decl are stepped by actions.      *)
(***************************************************************************)
EXTENDS Integers, Sequences, FiniteSets, TLC

VARIABLES
    source,       \* the items the lexer delivers, in order (tokens and lexer errors)
    input,        \* Parser.input: the lexer, as the number of items it has delivered
    queue,        \* Parser.queue
    diagnostics,  \* Parser.diagnostics
    last_span,    \* Parser.last_span
    pc,           \* position of the running call chain
    cur,          \* locals of the declaration whose body is being parsed
    decls,        \* declarations returned to parse_source_text so far
    ret           \* what the last cursor or parsing call returned

vars == <<source, input, queue, diagnostics, last_span, pc, cur, decls, ret>>

(***************************************************************************)
(* Bounds of the model.                                                    *)
(***************************************************************************)
MaxDiags  == 6    \* the diagnostic list is recorded up to this length
MaxOffset == 3    \* largest lookahead offset the cursor harness asks for
MaxStream == 3    \* longest lexer stream of the cursor harness
MaxItems  == 2    \* most body fragments in one declaration of the driver inputs
MaxPorts  == 2    \* most ports in one port list of the port harness

(***************************************************************************)
(* Tokens and spans.  A span is a range of token positions of the source.  *)
(***************************************************************************)
Tk(k, v)          == [k |-> k, v |-> v]
Keyword(kw)       == Tk("Keyword", kw)
Ident(n)          == Tk("Ident", n)
EscIdent(n)       == Tk("EscIdent", n)
SysIdent(n)       == Tk("SysIdent", n)
OpenDelim(d)      == Tk("OpenDelim", d)
CloseDelim(d)     == Tk("CloseDelim", d)
UnsignedNumber(x) == Tk("UnsignedNumber", x)
Literal(l)        == Tk("Literal", l)
Sym(s)            == Tk(s, "")
Eof               == Sym("Eof")
Semicolon         == Sym("Semicolon")
Comma             == Sym("Comma")
Colon             == Sym("Colon")
Period            == Sym("Period")
Hashtag           == Sym("Hashtag")
Assign            == Sym("Assign")
Equal             == Sym("Equal")
LexError          == Sym("LexError")   \* an item for which next_token returns Err

Span(b, e)   == [begin |-> b, end |-> e]
INVALID_SPAN == Span(0, 0)
Max2(a, b)   == IF a >= b THEN a ELSE b
Min2(a, b)   == IF a <= b THEN a ELSE b
\* Span::expand: the covering span of the two.
expand(s, t) == Span(Min2(s.begin, t.begin), Max2(s.end, t.end))
\* Span::end: the empty span at the end of s.
end_of(s)    == Span(s.end, s.end)

TS(t, sp) == [tkn |-> t, sp |-> sp]

Diag(sev, msg, sp) == [severity |-> sev, message |-> msg, span |-> sp]

\* A parser record and the result of a call on it.
R(p, res, val) == [p |-> p, res |-> res, val |-> val]
Unit == "()"

\* `let x = e; ...`: the value of e, computed once, in the rest of the body.
With(e, F(_)) == CHOOSE out \in {F(x) : x \in {e}} : TRUE

(***************************************************************************)
(* The lexer collaborator: items in source order, then end-of-input,       *)
(* repeated with the same span on every further call.                      *)
(***************************************************************************)
EofSpan == Span(Len(source) + 1, Len(source) + 1)

next_token(p) ==
    IF p.input < Len(source)
    THEN LET i == p.input + 1 IN
         IF source[i] = LexError
         THEN R([p EXCEPT !.input = i], "Err", Diag("Error", <<"lexer error">>, Span(i, i)))
         ELSE R([p EXCEPT !.input = i], "Ok", TS(source[i], Span(i, i)))
    ELSE R([p EXCEPT !.input = Len(source) + 1], "Ok", TS(Eof, EofSpan))

(***************************************************************************)
(* Parser: the token cursor and the diagnostic sink.                       *)
(***************************************************************************)
\* add_diag with the diagnostic put in front of the list.
add_diag_front(p, diag) ==
    IF Len(p.diagnostics) < MaxDiags
    THEN [p EXCEPT !.diagnostics = <<diag>> \o @]
    ELSE p

\* Parser::add_diag.  The rendering to stdout is not state; the list is
\* recorded up to MaxDiags entries.
add_diag(p, diag) ==
    IF Len(p.diagnostics) < MaxDiags
    THEN [p EXCEPT !.diagnostics = Append(@, diag)]
    ELSE p

\* The loop of ensure_queue_filled with push_front in place of push_back.
RECURSIVE fill_queue_push_front(_, _)
fill_queue_push_front(p0, min_tokens) ==
    With(p0, LAMBDA p :
        IF Len(p.queue) <= min_tokens
        THEN With(next_token(p), LAMBDA r :
                 IF r.res = "Ok"
                 THEN fill_queue_push_front([r.p EXCEPT !.queue = <<r.val>> \o @], min_tokens)
                 ELSE fill_queue_push_front(add_diag(r.p, r.val), min_tokens))
        ELSE p)

\* The loop filling only while the queue is shorter than min_tokens.
RECURSIVE fill_queue_below(_, _)
fill_queue_below(p0, min_tokens) ==
    With(p0, LAMBDA p :
        IF Len(p.queue) < min_tokens
        THEN With(next_token(p), LAMBDA r :
                 IF r.res = "Ok"
                 THEN fill_queue_below([r.p EXCEPT !.queue = Append(@, r.val)], min_tokens)
                 ELSE fill_queue_below(add_diag(r.p, r.val), min_tokens))
        ELSE p)

\* The `while` loop of ensure_queue_filled.
RECURSIVE fill_queue(_, _)
fill_queue(p0, min_tokens) ==
    With(p0, LAMBDA p :
        IF Len(p.queue) <= min_tokens
        THEN With(next_token(p), LAMBDA r :
                 IF r.res = "Ok"
                 THEN fill_queue([r.p EXCEPT !.queue = Append(@, r.val)], min_tokens)
                 ELSE fill_queue(add_diag(r.p, r.val), min_tokens))
        ELSE p)

ensure_queue_filled(p0, min_tokens) ==
    With(p0, LAMBDA p :
        IF Len(p.queue) > 0 /\ p.queue[Len(p.queue)].tkn = Eof
        THEN p
        ELSE fill_queue(p, min_tokens))

\* The value standing for the failed `expect` of peek on an empty queue.
ExpectFailed == TS(Sym("ExpectFailed"), INVALID_SPAN)

\* peek, returning the front of the queue for an offset past its end.
peek_front(p, offset) ==
    With(ensure_queue_filled(p, offset), LAMBDA q :
        R(q, "Ok", IF offset < Len(q.queue) THEN q.queue[offset + 1]
                   ELSE IF Len(q.queue) > 0 THEN q.queue[1]
                   ELSE ExpectFailed))

peek(p, offset) ==
    With(ensure_queue_filled(p, offset), LAMBDA q :
        R(q, "Ok", IF offset < Len(q.queue) THEN q.queue[offset + 1]
                   ELSE IF Len(q.queue) > 0 THEN q.queue[Len(q.queue)]
                   ELSE ExpectFailed))

\* bump, without the update of last_span.
bump_keep_span(p0) ==
    With(p0, LAMBDA p :
    With(IF Len(p.queue) = 0 THEN ensure_queue_filled(p, 1) ELSE p, LAMBDA q :
        IF Len(q.queue) > 0 THEN [q EXCEPT !.queue = Tail(@)] ELSE q))

bump(p0) ==
    With(p0, LAMBDA p :
    With(IF Len(p.queue) = 0 THEN ensure_queue_filled(p, 1) ELSE p, LAMBDA q :
        IF Len(q.queue) > 0
        THEN [q EXCEPT !.queue = Tail(@), !.last_span = Head(q.queue).sp]
        ELSE q))

is_fatal(p) == FALSE

(***************************************************************************)
(* The lower parse primitives.  A ParseResult failure carries the          *)
(* diagnostic in val and leaves the sink alone; a ReportedResult failure   *)
(* has already appended it.  res = "Panic" is a panic unwinding the call   *)
(* chain.                                                                  *)
(***************************************************************************)
None    == [some |-> FALSE]
Some(x) == [some |-> TRUE, v |-> x]

\* `f(...)?`: go on with the value of a successful call, else return the failure.
Try(r0, F(_)) ==
    With(r0, LAMBDA r :
        IF r.res = "Ok" THEN F(r)
        ELSE IF r.res = "Panic" THEN r
        ELSE R(r.p, "Err", Unit))

IsIdent(t) == t.k \in {"Ident", "EscIdent"}

try_eat_ident(p) ==
    With(peek(p, 0), LAMBDA pk :
        IF IsIdent(pk.val.tkn)
        THEN R(bump(pk.p), "Ok", Some([name |-> pk.val.tkn.v, span |-> pk.val.sp]))
        ELSE R(pk.p, "Ok", None))

eat_ident_or(p, msg) ==
    With(peek(p, 0), LAMBDA pk :
        IF IsIdent(pk.val.tkn)
        THEN R(bump(pk.p), "Ok", [name |-> pk.val.tkn.v, span |-> pk.val.sp])
        ELSE R(pk.p, "Err",
               Diag("Error", <<"Expected", msg, "before", pk.val.tkn.k, pk.val.tkn.v>>,
                    pk.val.sp)))

\* eat_ident failing without reporting.
eat_ident_unreported(p, msg) ==
    With(peek(p, 0), LAMBDA pk :
        IF IsIdent(pk.val.tkn)
        THEN R(bump(pk.p), "Ok", [name |-> pk.val.tkn.v, span |-> pk.val.sp])
        ELSE R(pk.p, "Err", Unit))

eat_ident(p, msg) ==
    With(peek(p, 0), LAMBDA pk :
        IF IsIdent(pk.val.tkn)
        THEN R(bump(pk.p), "Ok", [name |-> pk.val.tkn.v, span |-> pk.val.sp])
        ELSE R(add_diag(pk.p,
                        Diag("Error", <<"Expected", msg, "before", pk.val.tkn.k, pk.val.tkn.v>>,
                             pk.val.sp)), "Err", Unit))

\* require emitting the diagnostic it returns.
require_emit(p, expect) ==
    With(peek(p, 0), LAMBDA pk :
        IF pk.val.tkn = expect
        THEN R(bump(pk.p), "Ok", Unit)
        ELSE LET d == Diag("Error", <<"Expected", expect.k, expect.v, "but found",
                                      pk.val.tkn.k, pk.val.tkn.v, "instead">>, pk.val.sp)
             IN R(add_diag(pk.p, d), "Err", d))

require(p, expect) ==
    With(peek(p, 0), LAMBDA pk :
        IF pk.val.tkn = expect
        THEN R(bump(pk.p), "Ok", Unit)
        ELSE R(pk.p, "Err",
               Diag("Error", <<"Expected", expect.k, expect.v, "but found",
                               pk.val.tkn.k, pk.val.tkn.v, "instead">>, pk.val.sp)))

require_reported(p, expect) ==
    With(require(p, expect), LAMBDA r :
        IF r.res = "Ok" THEN r ELSE R(add_diag(r.p, r.val), "Err", Unit))

try_eat(p, expect) ==
    With(peek(p, 0), LAMBDA pk :
        IF pk.val.tkn = expect THEN R(bump(pk.p), "Ok", TRUE) ELSE R(pk.p, "Ok", FALSE))

(***************************************************************************)
(* The recovery engine.                                                    *)
(***************************************************************************)
\* recover consuming the terminator whatever eat_terminator says.
RECURSIVE recover_eat_always(_, _, _)
recover_eat_always(p, terminators, eat_terminator) ==
    With(peek(p, 0), LAMBDA pk :
        IF pk.val.tkn = Eof THEN pk.p
        ELSE IF pk.val.tkn \in terminators
        THEN bump(pk.p)
        ELSE recover_eat_always(bump(pk.p), terminators, eat_terminator))

\* recover consuming the end-of-input token where it stops.
RECURSIVE recover_bump_eof(_, _, _)
recover_bump_eof(p, terminators, eat_terminator) ==
    With(peek(p, 0), LAMBDA pk :
        IF pk.val.tkn = Eof THEN bump(pk.p)
        ELSE IF pk.val.tkn \in terminators
        THEN (IF eat_terminator THEN bump(pk.p) ELSE pk.p)
        ELSE recover_bump_eof(bump(pk.p), terminators, eat_terminator))

RECURSIVE recover(_, _, _)
recover(p, terminators, eat_terminator) ==
    With(peek(p, 0), LAMBDA pk :
        IF pk.val.tkn = Eof THEN pk.p
        ELSE IF pk.val.tkn \in terminators
        THEN (IF eat_terminator THEN bump(pk.p) ELSE pk.p)
        ELSE recover(bump(pk.p), terminators, eat_terminator))

\* The loop consuming the closing delimiter it reports.
RECURSIVE recover_balanced_loop_eat_close(_, _, _, _)
recover_balanced_loop_eat_close(p, terminators, eat_terminator, stack) ==
    With(peek(p, 0), LAMBDA pk :
        LET tkn == pk.val.tkn
            sp  == pk.val.sp
        IN
        IF stack = <<>> /\ tkn \in terminators
        THEN (IF eat_terminator THEN bump(pk.p) ELSE pk.p)
        ELSE IF tkn.k = "OpenDelim"
        THEN recover_balanced_loop_eat_close(bump(pk.p), terminators, eat_terminator,
                                             Append(stack, tkn.v))
        ELSE IF tkn.k = "CloseDelim"
        THEN IF stack # <<>>
             THEN IF stack[Len(stack)] # tkn.v
                  THEN bump(add_diag(pk.p, Diag("Error",
                           <<"Found closing which is not the complement to the previous opening",
                             tkn.v, stack[Len(stack)]>>, sp)))
                  ELSE recover_balanced_loop_eat_close(bump(pk.p), terminators, eat_terminator,
                                                       SubSeq(stack, 1, Len(stack) - 1))
             ELSE bump(add_diag(pk.p, Diag("Error",
                           <<"Found closing without an earlier opening", tkn.v>>, sp)))
        ELSE IF tkn = Eof THEN pk.p
        ELSE recover_balanced_loop_eat_close(bump(pk.p), terminators, eat_terminator, stack))

\* The loop honouring a terminator whatever the stack holds.
RECURSIVE recover_balanced_loop_any_depth(_, _, _, _)
recover_balanced_loop_any_depth(p, terminators, eat_terminator, stack) ==
    With(peek(p, 0), LAMBDA pk :
        LET tkn == pk.val.tkn
            sp  == pk.val.sp
        IN
        IF tkn \in terminators
        THEN (IF eat_terminator THEN bump(pk.p) ELSE pk.p)
        ELSE IF tkn.k = "OpenDelim"
        THEN recover_balanced_loop_any_depth(bump(pk.p), terminators, eat_terminator,
                                             Append(stack, tkn.v))
        ELSE IF tkn.k = "CloseDelim"
        THEN IF stack # <<>>
             THEN IF stack[Len(stack)] # tkn.v
                  THEN add_diag(pk.p, Diag("Error",
                           <<"Found closing which is not the complement to the previous opening",
                             tkn.v, stack[Len(stack)]>>, sp))
                  ELSE recover_balanced_loop_any_depth(bump(pk.p), terminators, eat_terminator,
                                                       SubSeq(stack, 1, Len(stack) - 1))
             ELSE add_diag(pk.p, Diag("Error",
                           <<"Found closing without an earlier opening", tkn.v>>, sp))
        ELSE IF tkn = Eof THEN pk.p
        ELSE recover_balanced_loop_any_depth(bump(pk.p), terminators, eat_terminator, stack))

\* The `loop` of recover_balanced, with its stack of opened delimiters.
RECURSIVE recover_balanced_loop(_, _, _, _)
recover_balanced_loop(p, terminators, eat_terminator, stack) ==
    With(peek(p, 0), LAMBDA pk :
        LET tkn == pk.val.tkn
            sp  == pk.val.sp
        IN
        IF stack = <<>> /\ tkn \in terminators
        THEN (IF eat_terminator THEN bump(pk.p) ELSE pk.p)
        ELSE IF tkn.k = "OpenDelim"
        THEN recover_balanced_loop(bump(pk.p), terminators, eat_terminator,
                                   Append(stack, tkn.v))
        ELSE IF tkn.k = "CloseDelim"
        THEN IF stack # <<>>
             THEN IF stack[Len(stack)] # tkn.v
                  THEN add_diag(pk.p, Diag("Error",
                           <<"Found closing which is not the complement to the previous opening",
                             tkn.v, stack[Len(stack)]>>, sp))
                  ELSE recover_balanced_loop(bump(pk.p), terminators, eat_terminator,
                                             SubSeq(stack, 1, Len(stack) - 1))
             ELSE add_diag(pk.p, Diag("Error",
                           <<"Found closing without an earlier opening", tkn.v>>, sp))
        ELSE IF tkn = Eof THEN pk.p
        ELSE recover_balanced_loop(bump(pk.p), terminators, eat_terminator, stack))

recover_balanced(p, terminators, eat_terminator) ==
    recover_balanced_loop(p, terminators, eat_terminator, <<>>)

(***************************************************************************)
(* Constant expressions, data types and dimensions.                        *)
(***************************************************************************)
ConstUnaryOps  == {Sym("Add"), Sym("Sub"), Sym("Not"), Sym("Neg"), Sym("And"), Sym("Nand"),
                   Sym("Or"), Sym("Xor"), Sym("Nxor"), Sym("Xnor")}
ConstBinaryOps == {Sym("Add"), Sym("Sub"), Sym("Mul"), Sym("Div"), Sym("Mod"), Sym("And"),
                   Sym("Or"), Sym("Xor"), Sym("Xnor"), Sym("Nxor")}
IsConstPrimary(t) ==
    \/ t.k = "UnsignedNumber"
    \/ t \in {Literal("Str"), Literal("BasedInteger"), Literal("UnbasedUnsized")}
    \/ t.k = "Ident"

RECURSIVE parse_constant_expr(_)
parse_constant_expr(p) ==
    With(peek(p, 0), LAMBDA pk :
        IF pk.val.tkn \in ConstUnaryOps THEN parse_constant_expr(bump(pk.p))
        ELSE IF ~IsConstPrimary(pk.val.tkn)
        THEN R(add_diag(pk.p, Diag("Error", <<"Expected constant primary expression">>,
                                   pk.val.sp)), "Err", Unit)
        ELSE With(peek(bump(pk.p), 0), LAMBDA pk2 :
                 IF pk2.val.tkn \in ConstBinaryOps THEN parse_constant_expr(bump(pk2.p))
                 ELSE R(pk2.p, "Ok", Unit)))

\* The type data of a keyword, or "" for a keyword that starts no data type.
KeywordType(kw) ==
    CASE kw = "Bit"      -> "BitType"
      [] kw = "Logic"    -> "LogicType"
      [] kw = "Reg"      -> "RegType"
      [] kw = "Byte"     -> "ByteType"
      [] kw = "Shortint" -> "ShortIntType"
      [] kw = "Int"      -> "IntType"
      [] kw = "Longint"  -> "LongIntType"
      [] kw = "Integer"  -> "IntType"
      [] kw = "Time"     -> "TimeType"
      [] OTHER           -> ""

TypeData(d, n) == [d |-> d, n |-> n]
ImplicitType   == TypeData("ImplicitType", "")
LogicType      == TypeData("LogicType", "")
NamedType(n)   == TypeData("NamedType", n)

\* The `match p.peek(0).0` of try_dimension after the opening bracket; val
\* is the TypeDim.
dimension_kind(p) ==
    With(peek(p, 0), LAMBDA pk :
        IF pk.val.tkn = CloseDelim("Brack") THEN R(bump(pk.p), "Ok", "Unsized")
        ELSE IF pk.val.tkn = Sym("Mul") THEN R(bump(pk.p), "Ok", "Associative")
        ELSE With(parse_constant_expr(pk.p), LAMBDA e :
                 IF e.res # "Ok"
                 THEN R(recover_balanced(e.p, {CloseDelim("Brack")}, TRUE), "Err", Unit)
                 ELSE With(try_eat(e.p, Colon), LAMBDA c :
                          IF c.val
                          THEN With(parse_constant_expr(c.p), LAMBDA e2 :
                                   IF e2.res # "Ok"
                                   THEN R(recover_balanced(e2.p, {CloseDelim("Brack")}, TRUE),
                                          "Err", Unit)
                                   ELSE R(e2.p, "Ok", "Range"))
                          ELSE R(c.p, "Ok", "Expr"))))

try_dimension(p) ==
    With(try_eat(p, OpenDelim("Brack")), LAMBDA o :
        IF ~o.val THEN R(o.p, "Ok", None)
        ELSE
        Try(dimension_kind(o.p), LAMBDA d :
        With(peek(d.p, 0), LAMBDA pk2 :
            IF pk2.val.tkn = CloseDelim("Brack")
            THEN R(bump(pk2.p), "Ok",
                   Some([dim |-> d.val, span |-> expand(o.p.last_span, pk2.val.sp)]))
            ELSE R(add_diag(pk2.p, Diag("Error",
                       <<"Expected closing brackets after dimension, got", pk2.val.tkn.k,
                         pk2.val.tkn.v>>, pk2.val.sp)), "Err", Unit))))

\* The `while let` loop of parse_optional_dimensions.
RECURSIVE more_dimensions(_, _, _)
more_dimensions(p, v, span) ==
    Try(try_dimension(p), LAMBDA d :
        IF d.val.some
        THEN more_dimensions(d.p, Append(v, d.val.v.dim), expand(span, d.val.v.span))
        ELSE R(d.p, "Ok", [dims |-> v, span |-> span]))

parse_optional_dimensions(p) ==
    Try(try_dimension(p), LAMBDA d :
        IF d.val.some
        THEN more_dimensions(d.p, <<d.val.v.dim>>, d.val.v.span)
        ELSE R(d.p, "Ok", [dims |-> <<>>, span |-> INVALID_SPAN]))

parse_data_type(p) ==
    With(peek(p, 0), LAMBDA pk :
        LET tkn  == pk.val.tkn
            span == pk.val.sp
        IN
        IF tkn.k = "Keyword" /\ KeywordType(tkn.v) = ""
        THEN R(add_diag(pk.p, Diag("Error", <<"Expected data type, found keyword", tkn.v>>,
                                   span)), "Err", Unit)
        ELSE
        LET data == IF tkn.k = "Keyword" THEN TypeData(KeywordType(tkn.v), "")
                    ELSE IF IsIdent(tkn) THEN NamedType(tkn.v)
                    ELSE ImplicitType
        IN
        With(peek(IF data # ImplicitType THEN bump(pk.p) ELSE pk.p, 0), LAMBDA pk1 :
            LET sgn   == IF pk1.val.tkn = Keyword("Signed") THEN "Signed"
                         ELSE IF pk1.val.tkn = Keyword("Unsigned") THEN "Unsigned"
                         ELSE "None"
                span1 == IF sgn # "None" THEN expand(span, pk1.val.sp) ELSE span
            IN
            Try(parse_optional_dimensions(IF sgn # "None" THEN bump(pk1.p) ELSE pk1.p),
                LAMBDA d :
                R(d.p, "Ok",
                  [span |-> IF d.val.dims # <<>> THEN expand(span1, d.val.span) ELSE span1,
                   data |-> data, sign |-> sgn, dims |-> d.val.dims]))))

(***************************************************************************)
(* Expressions.  The parsed expression is `()` in the source.              *)
(***************************************************************************)
Precedence ==
    [Min |-> 0, Concatenation |-> 1, Assignment |-> 2, Implication |-> 3, Ternary |-> 4,
     LogicOr |-> 5, LogicAnd |-> 6, BinOr |-> 7, BinXor |-> 8, BinAnd |-> 9,
     Equality |-> 10, Relational |-> 11, Shift |-> 12, Add |-> 13, Mul |-> 14,
     Pow |-> 15, Unary |-> 16, Scope |-> 17, Max |-> 18]

get_precedence(op) ==
    CASE op \in {"Add", "Sub"}        -> Precedence.Add
      [] op \in {"Mul", "Div", "Mod"} -> Precedence.Mul
      [] op \in {"Shl", "Shr"}        -> Precedence.Shift
      [] op = "Pow"                   -> Precedence.Pow
      [] op = "Stuff"                 -> Precedence.Add

as_unary_operator(tkn) ==
    IF tkn = Sym("Add") THEN Some("Add")
    ELSE IF tkn = Sym("Sub") THEN Some("Sub")
    ELSE IF tkn \in {Sym("Not"), Sym("Neg"), Sym("And"), Sym("Nand"), Sym("Or"), Sym("Nor"),
                     Sym("Xor"), Sym("Nxor"), Sym("Xnor")} THEN Some("Stuff")
    ELSE None

as_binary_operator(tkn) ==
    IF tkn \in {Sym("Add"), Sym("Sub"), Sym("Mul"), Sym("Div"), Sym("Mod"), Sym("Shl"),
                Sym("Shr"), Sym("Pow"), Sym("Rarrow")} THEN Some("Stuff")
    ELSE None

\* `match f(p) { Ok(x) => x, Err(e) => { p.recover_balanced(&[close], true);
\* return Err(e); } }` followed by `p.require_reported(close)?`.
Delimited(r0, close) ==
    With(r0, LAMBDA r :
        IF r.res = "Err" THEN R(recover_balanced(r.p, {close}, TRUE), "Err", Unit)
        ELSE IF r.res = "Ok" THEN require_reported(r.p, close)
        ELSE r)

RECURSIVE parse_expr_prec(_, _), parse_expr_first(_, _), parse_primary_expr(_),
          parse_concat_expr(_), parse_expr_list(_), parse_primary_parenthesis(_),
          parse_range_expr(_), concat_tail(_)

parse_expr(p) == parse_expr_prec(p, Precedence.Min)

parse_expr_prec(p, precedence) ==
    Try(parse_expr_first(p, precedence), LAMBDA f :
    With(peek(f.p, 0), LAMBDA pk :
        LET tkn == pk.val.tkn
            sp  == pk.val.sp
            bop == as_binary_operator(tkn)
        IN
        IF tkn = OpenDelim("Brack") /\ precedence <= Precedence.Scope
        THEN Delimited(parse_range_expr(bump(pk.p)), CloseDelim("Brack"))
        ELSE IF tkn = OpenDelim("Paren") /\ precedence <= Precedence.Scope
        THEN R(recover_balanced(
                   add_diag(bump(pk.p),
                            Diag("Error", <<"Don't know how to handle call expressions">>, sp)),
                   {CloseDelim("Paren")}, TRUE), "Ok", Unit)
        ELSE IF tkn = Period /\ precedence <= Precedence.Scope
        THEN Try(eat_ident(bump(pk.p), "member name"), LAMBDA x : R(x.p, "Ok", Unit))
        ELSE IF tkn = Sym("Namespace") /\ precedence <= Precedence.Scope
        THEN Try(eat_ident(bump(pk.p), "scope name"), LAMBDA x : R(x.p, "Ok", Unit))
        ELSE IF tkn \in {Sym("Inc"), Sym("Dec")} /\ precedence <= Precedence.Unary
        THEN R(bump(pk.p), "Ok", Unit)
        ELSE IF bop.some /\ precedence <= get_precedence(bop.v)
        THEN Try(parse_expr_prec(bump(pk.p), get_precedence(bop.v)),
                 LAMBDA x : R(x.p, "Ok", Unit))
        ELSE R(pk.p, "Ok", Unit)))

parse_expr_first(p, precedence) ==
    With(peek(p, 0), LAMBDA pk :
        LET tkn == pk.val.tkn IN
        IF tkn \in {Sym("Inc"), Sym("Dec")} /\ precedence <= Precedence.Unary
        THEN Try(parse_expr_prec(bump(pk.p), Precedence.Unary), LAMBDA x : R(x.p, "Ok", Unit))
        ELSE IF tkn = Keyword("Tagged")
        THEN R(add_diag(pk.p, Diag("Error", <<"Tagged union expressions not implemented">>,
                                   pk.val.sp)), "Err", Unit)
        ELSE IF as_unary_operator(tkn).some
        THEN Try(parse_primary_expr(bump(pk.p)), LAMBDA x : R(x.p, "Ok", Unit))
        ELSE parse_primary_expr(pk.p))

IsPrimaryLiteral(t) ==
    \/ t.k = "UnsignedNumber"
    \/ t \in {Literal("Str"), Literal("Decimal"), Literal("BasedInteger"),
              Literal("UnbasedUnsized")}
    \/ t.k \in {"Ident", "EscIdent", "SysIdent"}

parse_primary_expr(p) ==
    With(peek(p, 0), LAMBDA pk :
        LET tkn == pk.val.tkn
            sp  == pk.val.sp
        IN
        IF IsPrimaryLiteral(tkn) THEN R(bump(pk.p), "Ok", Unit)
        ELSE IF tkn = OpenDelim("Brace")
        THEN With(try_eat(bump(pk.p), CloseDelim("Brace")), LAMBDA c :
                 IF c.val
                 THEN R(add_diag(c.p, Diag("Error",
                            <<"Don't know what to do with an empty queue">>, sp)), "Ok", Unit)
                 ELSE Delimited(parse_concat_expr(c.p), CloseDelim("Brace")))
        ELSE IF tkn = OpenDelim("Paren")
        THEN Delimited(parse_primary_parenthesis(bump(pk.p)), CloseDelim("Paren"))
        ELSE R(add_diag(pk.p, Diag("Error", <<"Expected primary expression">>, sp)),
               "Err", Unit))

\* The `while p.try_eat(Comma)` loop of parse_concat_expr.
concat_tail(p) ==
    With(try_eat(p, Comma), LAMBDA c :
        IF ~c.val THEN R(c.p, "Ok", Unit)
        ELSE With(peek(c.p, 0), LAMBDA pk :
                 IF pk.val.tkn = CloseDelim("Brace")
                 THEN R(add_diag(pk.p, Diag("Warning", <<"Superfluous trailing comma">>,
                                            pk.val.sp)), "Ok", Unit)
                 ELSE Try(parse_expr_prec(pk.p, Precedence.Max),
                          LAMBDA x : concat_tail(x.p))))

\* parse_concat_expr without the multiple-concatenation form.
parse_concat_expr_plain(p) ==
    With(peek(p, 0), LAMBDA pk :
        IF pk.val.tkn \in {Sym("Shl"), Sym("Shr")}
        THEN R(add_diag(pk.p, Diag("Error",
                   <<"Don't know how to handle streaming concatenation">>, pk.val.sp)),
               "Err", Unit)
        ELSE Try(parse_expr_prec(pk.p, Precedence.Concatenation), LAMBDA f :
                 concat_tail(f.p)))

parse_concat_expr(p) ==
    With(peek(p, 0), LAMBDA pk :
        IF pk.val.tkn \in {Sym("Shl"), Sym("Shr")}
        THEN R(add_diag(pk.p, Diag("Error",
                   <<"Don't know how to handle streaming concatenation">>, pk.val.sp)),
               "Err", Unit)
        ELSE Try(parse_expr_prec(pk.p, Precedence.Concatenation), LAMBDA f :
             With(try_eat(f.p, OpenDelim("Brace")), LAMBDA o :
                 IF o.val
                 THEN Delimited(parse_expr_list(o.p), CloseDelim("Brace"))
                 ELSE concat_tail(o.p))))

parse_expr_list(p) ==
    Try(parse_expr_prec(p, Precedence.Max), LAMBDA e :
    With(peek(e.p, 0), LAMBDA pk :
        IF pk.val.tkn = Comma
        THEN With(peek(bump(pk.p), 0), LAMBDA pk2 :
                 IF pk2.val.tkn = CloseDelim("Brace")
                 THEN R(add_diag(pk2.p, Diag("Warning", <<"Superfluous trailing comma">>,
                                             pk.val.sp)), "Ok", Unit)
                 ELSE parse_expr_list(pk2.p))
        ELSE IF pk.val.tkn = CloseDelim("Brace") THEN R(pk.p, "Ok", Unit)
        ELSE R(add_diag(pk.p, Diag("Error", <<"Expected , or } after expression">>,
                                   pk.val.sp)), "Err", Unit)))

parse_primary_parenthesis(p) ==
    Try(parse_expr_prec(p, Precedence.Scope), LAMBDA a :
    With(try_eat(a.p, Colon), LAMBDA c :
        IF c.val
        THEN Try(parse_expr_prec(c.p, Precedence.Scope), LAMBDA b :
             Try(require_reported(b.p, Colon), LAMBDA q :
             Try(parse_expr_prec(q.p, Precedence.Scope), LAMBDA d : R(d.p, "Ok", Unit))))
        ELSE R(c.p, "Ok", Unit)))

parse_range_expr(p) ==
    Try(parse_expr(p), LAMBDA f :
    With(peek(f.p, 0), LAMBDA pk :
        IF pk.val.tkn \in {Colon, Sym("AddColon"), Sym("SubColon")}
        THEN Try(parse_expr(bump(pk.p)), LAMBDA x : R(x.p, "Ok", Unit))
        ELSE R(pk.p, "Ok", Unit)))

(***************************************************************************)
(* Statements and blocks.                                                  *)
(***************************************************************************)
RECURSIVE parse_stmt(_), parse_block(_, _, _), block_stmts(_, _, _)

JoinTerminators == {Keyword("Join"), Keyword("JoinAny"), Keyword("JoinNone")}

JoinKind(terminator) ==
    CASE terminator = Keyword("Join")     -> "All"
      [] terminator = Keyword("JoinAny")  -> "Any"
      [] terminator = Keyword("JoinNone") -> "None"

Stmt(span, label, data) == [span |-> span, label |-> label, data |-> data]

\* The optional statement label of parse_stmt.
stmt_label(p) ==
    With(peek(p, 1), LAMBDA pk1 :
        IF pk1.val.tkn = Colon
        THEN Try(eat_ident(pk1.p, "statement label"),
                 LAMBDA n : R(bump(n.p), "Ok", Some(n.val.name)))
        ELSE R(pk1.p, "Ok", None))

parse_stmt(p) ==
    With(peek(p, 0), LAMBDA pk0 :
    With(try_eat(pk0.p, Semicolon), LAMBDA semi :
        LET span == pk0.val.sp IN
        IF semi.val THEN R(semi.p, "Ok", Stmt(span, None, [kind |-> "NullStmt"]))
        ELSE
        Try(stmt_label(semi.p), LAMBDA l :
        With(peek(l.p, 0), LAMBDA pk :
            LET tkn == pk.val.tkn IN
            IF tkn = OpenDelim("Bgend")
            THEN Try(parse_block(bump(pk.p), l.val, {CloseDelim("Bgend")}), LAMBDA b :
                     R(b.p, "Ok", Stmt(expand(span, b.p.last_span), b.val.label,
                                       [kind |-> "SequentialBlock", stmts |-> b.val.stmts])))
            ELSE IF tkn = Keyword("Fork")
            THEN Try(parse_block(bump(pk.p), l.val, JoinTerminators), LAMBDA b :
                     IF b.val.terminator \in JoinTerminators
                     THEN R(b.p, "Ok", Stmt(expand(span, b.p.last_span), b.val.label,
                                            [kind |-> "ParallelBlock", stmts |-> b.val.stmts,
                                             join |-> JoinKind(b.val.terminator)]))
                     ELSE R(b.p, "Panic", <<"Invalid parallel block terminator",
                                            b.val.terminator.k, b.val.terminator.v>>))
            ELSE R(recover_balanced(
                       add_diag(pk.p, Diag("Error", <<"Expected statement, got", tkn.k, tkn.v,
                                                      "instead">>, pk.val.sp)),
                       {Semicolon}, TRUE), "Err", Unit)))))

\* The `'outer` loop of parse_block; val is the statements and the terminator.
block_stmts(p, terminators, v) ==
    With(peek(p, 0), LAMBDA pk :
        IF pk.val.tkn \in terminators
        THEN R(pk.p, "Ok", [stmts |-> v, terminator |-> pk.val.tkn])
        ELSE With(parse_stmt(pk.p), LAMBDA s :
                 IF s.res = "Ok" THEN block_stmts(s.p, terminators, Append(v, s.val))
                 ELSE IF s.res = "Err"
                 THEN With(peek(recover_balanced(s.p, terminators, FALSE), 0), LAMBDA pk2 :
                          R(bump(pk2.p), "Ok", [stmts |-> v, terminator |-> pk2.val.tkn]))
                 ELSE s))

\* block_open_label with the label after the opening keyword taken as the
\* label of the block when it conflicts with the statement label.
block_open_label_replace(p, label) ==
    With(try_eat(p, Colon), LAMBDA c :
        IF c.val
        THEN Try(eat_ident(c.p, "block label"), LAMBDA n :
                 IF label.some
                 THEN IF n.val.name = label.v
                      THEN R(add_diag(n.p, Diag("Warning",
                                 <<"Block labelled twice", n.val.name>>, n.val.span)),
                             "Ok", label)
                      ELSE R(add_diag(n.p, Diag("Error",
                                 <<"Block has been given two conflicting labels",
                                   label.v, n.val.name>>, n.val.span)),
                             "Ok", Some(n.val.name))
                 ELSE R(n.p, "Ok", Some(n.val.name)))
        ELSE R(c.p, "Ok", label))

\* The optional block label at the opening of parse_block; val is the label
\* of the block after it.
block_open_label(p, label) ==
    With(try_eat(p, Colon), LAMBDA c :
        IF c.val
        THEN Try(eat_ident(c.p, "block label"), LAMBDA n :
                 IF label.some
                 THEN IF n.val.name = label.v
                      THEN R(add_diag(n.p, Diag("Warning",
                                 <<"Block labelled twice", n.val.name>>, n.val.span)),
                             "Ok", label)
                      ELSE R(add_diag(n.p, Diag("Error",
                                 <<"Block has been given two conflicting labels",
                                   label.v, n.val.name>>, n.val.span)),
                             "Ok", label)
                 ELSE R(n.p, "Ok", Some(n.val.name)))
        ELSE R(c.p, "Ok", label))

parse_block(p, label, terminators) ==
    Try(block_open_label(p, label), LAMBDA o :
    Try(block_stmts(o.p, terminators, <<>>), LAMBDA b :
    With(try_eat(b.p, Colon), LAMBDA c2 :
        LET out == [stmts |-> b.val.stmts, terminator |-> b.val.terminator, label |-> o.val]
        IN
        IF c2.val
        THEN Try(eat_ident(c2.p, "block label"), LAMBDA n :
                 IF o.val.some
                 THEN IF o.val.v # n.val.name
                      THEN R(add_diag(n.p, Diag("Error",
                                 <<"Block label at end of block does not match label at beginning of block",
                                   n.val.name, o.val.v>>, n.val.span)), "Ok", out)
                      ELSE R(n.p, "Ok", out)
                 ELSE R(add_diag(n.p, Diag("Error",
                            <<"Block label provided at the end of the block, but not at the beginning",
                              n.val.name>>, n.val.span)), "Ok", out))
        ELSE R(c2.p, "Ok", out))))

parse_procedure(p, kind) ==
    With(bump(p), LAMBDA q :
        Try(parse_stmt(q), LAMBDA s :
            R(s.p, "Ok", [span |-> expand(q.last_span, s.p.last_span), kind |-> kind,
                          stmt |-> s.val])))

parse_func_decl(p) ==
    With(peek(p, 0), LAMBDA pk :
        R(recover_balanced(
              add_diag(bump(pk.p),
                       Diag("Error", <<"Don't know how to parse function declarations">>,
                            pk.val.sp)),
              {Keyword("Endfunction")}, TRUE), "Err", Unit))

parse_task_decl(p) ==
    With(peek(p, 0), LAMBDA pk :
        R(recover_balanced(
              add_diag(bump(pk.p),
                       Diag("Error", <<"Don't know how to parse task declarations">>,
                            pk.val.sp)),
              {Keyword("Endtask")}, TRUE), "Err", Unit))

(***************************************************************************)
(* Parameter port lists, ports and port lists.                             *)
(***************************************************************************)
\* `if p.try_eat(Assign) { match parse_constant_expr(p) { ... } }` of
\* parse_parameter_port_list; returns the parser.
parameter_default(p) ==
    With(try_eat(p, Assign), LAMBDA a :
        IF a.val
        THEN With(parse_constant_expr(a.p), LAMBDA e :
                 IF e.res = "Ok" THEN e.p
                 ELSE recover_balanced(e.p, {Comma, CloseDelim("Paren")}, FALSE))
        ELSE a.p)

\* The inner loop without the `break` on a comma followed by `parameter`.
RECURSIVE parameter_assignments_loop_no_break(_, _)
parameter_assignments_loop_no_break(p, v) ==
    With(eat_ident(p, "parameter name"), LAMBDA n :
        IF n.res # "Ok"
        THEN [p |-> recover_balanced(n.p, {Comma, CloseDelim("Paren")}, FALSE), v |-> v]
        ELSE
        With(peek(parameter_default(n.p), 0), LAMBDA pk :
            LET v1 == Append(v, Unit) IN
            IF pk.val.tkn = Comma
            THEN With(peek(bump(pk.p), 0), LAMBDA pk2 :
                     IF pk2.val.tkn = CloseDelim("Paren")
                     THEN [p |-> add_diag(pk2.p, Diag("Warning",
                                     <<"Superfluous trailing comma">>, pk.val.sp)), v |-> v1]
                     ELSE parameter_assignments_loop_no_break(pk2.p, v1))
            ELSE IF pk.val.tkn = CloseDelim("Paren") THEN [p |-> pk.p, v |-> v1]
            ELSE [p |-> recover_balanced(
                            add_diag(pk.p, Diag("Error",
                                <<"Expected , or ) after parameter assignment">>, pk.val.sp)),
                            {CloseDelim("Paren")}, FALSE),
                  v |-> v1]))

\* The inner loop reporting a superfluous trailing comma as an error.
RECURSIVE parameter_assignments_loop_comma_error(_, _)
parameter_assignments_loop_comma_error(p, v) ==
    With(eat_ident(p, "parameter name"), LAMBDA n :
        IF n.res # "Ok"
        THEN [p |-> recover_balanced(n.p, {Comma, CloseDelim("Paren")}, FALSE), v |-> v]
        ELSE
        With(peek(parameter_default(n.p), 0), LAMBDA pk :
            LET v1 == Append(v, Unit) IN
            IF pk.val.tkn = Comma
            THEN With(peek(bump(pk.p), 0), LAMBDA pk2 :
                     IF pk2.val.tkn = Keyword("Parameter") THEN [p |-> pk2.p, v |-> v1]
                     ELSE IF pk2.val.tkn = CloseDelim("Paren")
                     THEN [p |-> add_diag(pk2.p, Diag("Error",
                                     <<"Superfluous trailing comma">>, pk.val.sp)), v |-> v1]
                     ELSE parameter_assignments_loop_comma_error(pk2.p, v1))
            ELSE IF pk.val.tkn = CloseDelim("Paren") THEN [p |-> pk.p, v |-> v1]
            ELSE [p |-> recover_balanced(
                            add_diag(pk.p, Diag("Error",
                                <<"Expected , or ) after parameter assignment">>, pk.val.sp)),
                            {CloseDelim("Paren")}, FALSE),
                  v |-> v1]))

\* The inner `loop` of parse_parameter_port_list: the assignments of one
\* `parameter`; returns the parser and the list at the `break`.
RECURSIVE parameter_assignments_loop(_, _)
parameter_assignments_loop(p, v) ==
    With(eat_ident(p, "parameter name"), LAMBDA n :
        IF n.res # "Ok"
        THEN [p |-> recover_balanced(n.p, {Comma, CloseDelim("Paren")}, FALSE), v |-> v]
        ELSE
        With(peek(parameter_default(n.p), 0), LAMBDA pk :
            LET v1 == Append(v, Unit) IN
            IF pk.val.tkn = Comma
            THEN With(peek(bump(pk.p), 0), LAMBDA pk2 :
                     IF pk2.val.tkn = Keyword("Parameter") THEN [p |-> pk2.p, v |-> v1]
                     ELSE IF pk2.val.tkn = CloseDelim("Paren")
                     THEN [p |-> add_diag(pk2.p, Diag("Warning",
                                     <<"Superfluous trailing comma">>, pk.val.sp)), v |-> v1]
                     ELSE parameter_assignments_loop(pk2.p, v1))
            ELSE IF pk.val.tkn = CloseDelim("Paren") THEN [p |-> pk.p, v |-> v1]
            ELSE [p |-> recover_balanced(
                            add_diag(pk.p, Diag("Error",
                                <<"Expected , or ) after parameter assignment">>, pk.val.sp)),
                            {CloseDelim("Paren")}, FALSE),
                  v |-> v1]))

\* The `while p.try_eat(Keyword(Kw::Parameter))` loop and what follows it.
RECURSIVE parameter_ports_loop(_, _)
parameter_ports_loop(p, v) ==
    With(try_eat(p, Keyword("Parameter")), LAMBDA t :
        IF t.val
        THEN With(parameter_assignments_loop(t.p, v), LAMBDA l :
                 parameter_ports_loop(l.p, l.v))
        ELSE Try(require_reported(t.p, CloseDelim("Paren")), LAMBDA c : R(c.p, "Ok", v)))

parse_parameter_port_list(p) ==
    Try(require_reported(p, OpenDelim("Paren")), LAMBDA o : parameter_ports_loop(o.p, <<>>))

as_port_direction(tkn) ==
    CASE tkn = Keyword("Input")  -> Some("Input")
      [] tkn = Keyword("Output") -> Some("Output")
      [] tkn = Keyword("Inout")  -> Some("Inout")
      [] tkn = Keyword("Ref")    -> Some("Ref")
      [] OTHER                   -> None

NetTypeKeywords ==
    {Keyword("Supply0"), Keyword("Supply1"), Keyword("Tri"), Keyword("Triand"),
     Keyword("Trior"), Keyword("Trireg"), Keyword("Tri0"), Keyword("Tri1"),
     Keyword("Uwire"), Keyword("Wire"), Keyword("Wand"), Keyword("Wor")}

\* The `match p.peek(0).0` of parse_port that reads the net type or `var`.
as_port_kind(tkn) ==
    IF tkn \in NetTypeKeywords THEN Some("NetPort")
    ELSE IF tkn = Keyword("Var") THEN Some("VarPort")
    ELSE None

\* A default table that makes every output port a net.
default_port_kind_output_net(dir, ty) ==
    CASE dir \in {"Input", "Inout"} -> "NetPort"
      [] dir = "Ref"                -> "VarPort"
      [] dir = "Output"             -> "NetPort"

\* The `match dir.unwrap()` of parse_port: the kind of a port without a
\* net type or `var` keyword.
default_port_kind(dir, ty) ==
    CASE dir \in {"Input", "Inout"}                     -> "NetPort"
      [] dir = "Ref"                                    -> "VarPort"
      [] dir = "Output" /\ ty.data = ImplicitType       -> "NetPort"
      [] dir = "Output" /\ ty.data # ImplicitType       -> "VarPort"

DefaultLogic == [span |-> INVALID_SPAN, data |-> LogicType, sign |-> "None", dims |-> <<>>]

\* The part of parse_port after the name and the dimensions: inheritance or
\* defaults.  dir, kind, ty and prev are options.
port_fields(dir, kind, ty, prev) ==
    IF ~dir.some /\ ~kind.some /\ ~ty.some /\ prev.some
    THEN [dir |-> prev.v.dir, kind |-> prev.v.kind, ty |-> prev.v.ty]
    ELSE LET d == IF dir.some THEN dir.v ELSE "Inout"
             t == IF ty.some THEN ty.v ELSE DefaultLogic
             k == IF kind.some THEN kind.v ELSE default_port_kind(d, t)
         IN [dir |-> d, kind |-> k, ty |-> t]

\* parse_port from the data type on, after the direction, the kind and the
\* test for a leading period.
port_type_and_name(p, span, dir, kind, prev) ==
    Try(parse_data_type(p), LAMBDA t :
    With(try_eat_ident(t.p), LAMBDA n :
        IF ~n.val.some
        THEN With(peek(n.p, 0), LAMBDA q :
                 R(add_diag(q.p, Diag("Error",
                       <<"Ports with implicit data types not yet supported">>, q.val.sp)),
                   "Err", Unit))
        ELSE
        Try(parse_optional_dimensions(n.p), LAMBDA d :
        With(try_eat(d.p, Equal), LAMBDA eq :
        With(IF eq.val
             THEN With(peek(eq.p, 0), LAMBDA q :
                      add_diag(q.p, Diag("Error",
                          <<"Ports with initial assignment not yet supported">>, q.val.sp)))
             ELSE eq.p, LAMBDA p3 :
            LET f == port_fields(dir, kind, Some(t.val), prev) IN
            R(p3, "Ok", [span |-> expand(span, p3.last_span), name |-> n.val.v.name,
                         name_span |-> n.val.v.span, kind |-> f.kind, ty |-> f.ty,
                         dir |-> f.dir, dims |-> d.val.dims]))))))

parse_port(p, prev) ==
    With(peek(p, 0), LAMBDA pk0 :
    With(peek(IF as_port_direction(pk0.val.tkn).some THEN bump(pk0.p) ELSE pk0.p, 0),
         LAMBDA pk1 :
    With(try_eat(IF as_port_kind(pk1.val.tkn).some THEN bump(pk1.p) ELSE pk1.p, Period),
         LAMBDA dot :
        IF dot.val
        THEN With(peek(dot.p, 0), LAMBDA q :
                 R(add_diag(q.p, Diag("Error",
                       <<"Ports starting with a . not yet supported">>, q.val.sp)),
                   "Err", Unit))
        ELSE port_type_and_name(dot.p, pk0.val.sp, as_port_direction(pk0.val.tkn),
                                as_port_kind(pk1.val.tkn), prev))))

Last(v) == IF v = <<>> THEN None ELSE Some(v[Len(v)])

\* `p.require_reported(CloseDelim(Paren))?; Ok(v)` at the end of a list.
close_list(p, v) ==
    Try(require_reported(p, CloseDelim("Paren")), LAMBDA c : R(c.p, "Ok", v))

\* The `loop` of parse_port_list and the closing parenthesis after it.
RECURSIVE port_list_loop(_, _)
port_list_loop(p, v) ==
    With(parse_port(p, Last(v)), LAMBDA r :
    With(peek(IF r.res = "Ok" THEN r.p
              ELSE recover_balanced(r.p, {Comma, CloseDelim("Paren")}, FALSE), 0),
         LAMBDA pk :
        LET v1 == IF r.res = "Ok" THEN Append(v, r.val) ELSE v IN
        IF pk.val.tkn = Comma
        THEN With(peek(bump(pk.p), 0), LAMBDA pk2 :
                 IF pk2.val.tkn = CloseDelim("Paren")
                 THEN close_list(add_diag(pk2.p, Diag("Warning",
                                     <<"Superfluous trailing comma">>, pk.val.sp)), v1)
                 ELSE port_list_loop(pk2.p, v1))
        ELSE IF pk.val.tkn = CloseDelim("Paren") THEN close_list(pk.p, v1)
        ELSE close_list(recover_balanced(
                            add_diag(pk.p, Diag("Error", <<"Expected , or ) after port">>,
                                                pk.val.sp)),
                            {CloseDelim("Paren")}, FALSE), v1)))

parse_port_list(p) ==
    With(try_eat(p, CloseDelim("Paren")), LAMBDA c :
        IF c.val THEN R(c.p, "Ok", <<>>) ELSE port_list_loop(c.p, <<>>))

(***************************************************************************)
(* Parameter assignments and port connections of an instantiation.         *)
(***************************************************************************)
parse_parameter_assignment(p) ==
    With(try_eat(p, Period), LAMBDA d :
        IF d.val
        THEN Try(eat_ident(d.p, "parameter name"), LAMBDA n :
             Try(require_reported(n.p, OpenDelim("Paren")), LAMBDA o :
                 Delimited(parse_expr(o.p), CloseDelim("Paren"))))
        ELSE Try(parse_expr(d.p), LAMBDA x : R(x.p, "Ok", Unit)))

RECURSIVE parameter_assignment_list(_, _)
parameter_assignment_list(p, v) ==
    With(parse_parameter_assignment(p), LAMBDA r :
    With(peek(IF r.res = "Ok" THEN r.p
              ELSE recover_balanced(r.p, {Comma, CloseDelim("Paren")}, FALSE), 0),
         LAMBDA pk :
        LET v1 == IF r.res = "Ok" THEN Append(v, r.val) ELSE v IN
        IF pk.val.tkn = Comma
        THEN With(peek(bump(pk.p), 0), LAMBDA pk2 :
                 IF pk2.val.tkn = CloseDelim("Paren")
                 THEN close_list(add_diag(pk2.p, Diag("Warning",
                                     <<"Superfluous trailing comma">>, pk.val.sp)), v1)
                 ELSE parameter_assignment_list(pk2.p, v1))
        ELSE IF pk.val.tkn = CloseDelim("Paren") THEN close_list(pk.p, v1)
        ELSE close_list(recover_balanced(
                            add_diag(pk.p, Diag("Error",
                                <<"Expected , or ) after parameter assignment, found">>,
                                pk.val.sp)),
                            {CloseDelim("Paren")}, FALSE), v1)))

parse_parameter_assignments(p) ==
    Try(require_reported(p, OpenDelim("Paren")), LAMBDA o :
    With(try_eat(o.p, CloseDelim("Paren")), LAMBDA c :
        IF c.val THEN R(c.p, "Ok", <<>>) ELSE parameter_assignment_list(c.p, <<>>)))

\* The `.name`, `.name()` and `.name(expr)` cases of a port connection,
\* after the name.
named_port_connection(p) ==
    With(try_eat(p, OpenDelim("Paren")), LAMBDA o :
        IF ~o.val THEN R(o.p, "Ok", Unit)
        ELSE With(try_eat(o.p, CloseDelim("Paren")), LAMBDA c :
                 IF c.val THEN R(c.p, "Ok", Unit)
                 ELSE With(parse_expr(c.p), LAMBDA e :
                          IF e.res = "Panic" THEN e
                          ELSE require_reported(
                                   IF e.res = "Ok" THEN e.p
                                   ELSE recover_balanced(e.p, {CloseDelim("Paren")}, FALSE),
                                   CloseDelim("Paren")))))

\* One port connection: `.*`, a named connection or an expression.
port_connection(p) ==
    With(try_eat(p, Period), LAMBDA d :
        IF d.val
        THEN With(try_eat(d.p, Sym("Mul")), LAMBDA m :
                 IF m.val
                 THEN R(add_diag(m.p, Diag("Error",
                            <<"Don't know how to handle .* port connections">>,
                            m.p.last_span)), "Ok", Unit)
                 ELSE Try(eat_ident(m.p, "port name"),
                          LAMBDA n : named_port_connection(n.p)))
        ELSE Try(parse_expr(d.p), LAMBDA x : R(x.p, "Ok", Unit)))

RECURSIVE port_connections_loop(_)
port_connections_loop(p) ==
    Try(port_connection(p), LAMBDA r :
    With(peek(r.p, 0), LAMBDA pk :
        IF pk.val.tkn = Comma
        THEN With(peek(bump(pk.p), 0), LAMBDA pk2 :
                 IF pk2.val.tkn = CloseDelim("Paren")
                 THEN R(add_diag(pk2.p, Diag("Warning", <<"Superfluous trailing comma">>,
                                             pk.val.sp)), "Ok", <<>>)
                 ELSE port_connections_loop(pk2.p))
        ELSE IF pk.val.tkn = CloseDelim("Paren") THEN R(pk.p, "Ok", <<>>)
        ELSE R(add_diag(pk.p, Diag("Error",
                   <<"Expected , or ) after list of port connections, got", pk.val.tkn.k,
                     pk.val.tkn.v>>, pk.val.sp)), "Err", Unit)))

parse_list_of_port_connections(p) ==
    With(peek(p, 0), LAMBDA pk :
        IF pk.val.tkn = CloseDelim("Paren") THEN R(pk.p, "Ok", <<>>)
        ELSE port_connections_loop(pk.p))

(***************************************************************************)
(* The items of a module or interface body.                                *)
(***************************************************************************)
RECURSIVE parse_localparam_decl(_)
parse_localparam_decl(p) ==
    With(eat_ident_or(p, "parameter name"), LAMBDA n :
        IF n.res # "Ok" THEN R(add_diag(n.p, n.val), "Err", Unit)
        ELSE
        With(peek(parameter_default(n.p), 0), LAMBDA pk :
            IF pk.val.tkn = Comma
            THEN With(peek(bump(pk.p), 0), LAMBDA pk2 :
                     IF pk2.val.tkn = Semicolon
                     THEN R(add_diag(pk2.p, Diag("Warning",
                                <<"Superfluous trailing comma">>, pk.val.sp)), "Ok", Unit)
                     ELSE parse_localparam_decl(pk2.p))
            ELSE IF pk.val.tkn = Semicolon THEN R(pk.p, "Ok", Unit)
            ELSE R(add_diag(pk.p, Diag("Error",
                       <<"Expected , or ; after parameter assignment, got",
                         pk.val.tkn.k, pk.val.tkn.v>>, pk.val.sp)), "Err", Unit)))

parse_parameter_decl(p) ==
    With(peek(p, 0), LAMBDA pk :
        R(add_diag(pk.p, Diag("Error", <<"Parameter declarations not implemented">>,
                              pk.val.sp)), "Err", Unit))

\* One simple port of a modport: `.name()` or a name.
modport_simple_port(p) ==
    With(try_eat(p, Period), LAMBDA d :
        IF d.val
        THEN Try(eat_ident(d.p, "port name"), LAMBDA n :
             Try(require_reported(n.p, OpenDelim("Paren")), LAMBDA o :
                 require_reported(o.p, CloseDelim("Paren"))))
        ELSE eat_ident(d.p, "port_name"))

\* The `loop` of the simple ports of one direction in parse_modport_port_decl.
RECURSIVE modport_simple_ports(_)
modport_simple_ports(p) ==
    Try(modport_simple_port(p), LAMBDA r :
    With(peek(r.p, 0), LAMBDA pk0 :
    With(peek(pk0.p, 1), LAMBDA pk1 :
        IF pk0.val.tkn = Comma /\ pk1.val.tkn.k = "Keyword" THEN R(pk1.p, "Ok", Unit)
        ELSE IF pk0.val.tkn = Comma THEN modport_simple_ports(bump(pk1.p))
        ELSE R(pk1.p, "Ok", Unit))))

parse_modport_port_decl(p) ==
    With(peek(p, 0), LAMBDA pk :
        IF as_port_direction(pk.val.tkn).some THEN modport_simple_ports(bump(pk.p))
        ELSE With(try_eat(pk.p, Keyword("Clocking")), LAMBDA c :
                 IF c.val
                 THEN R(add_diag(c.p, Diag("Error",
                            <<"modport clocking declaration not implemented">>, pk.val.sp)),
                        "Err", Unit)
                 ELSE R(add_diag(c.p, Diag("Error", <<"Expected port declaration">>,
                                           pk.val.sp)), "Err", Unit)))

\* The `loop` over the port declarations of parse_modport_item; it ends
\* before the closing parenthesis.
RECURSIVE modport_port_decls(_)
modport_port_decls(p) ==
    With(parse_modport_port_decl(p), LAMBDA r :
        IF r.res # "Ok" THEN R(recover(r.p, {CloseDelim("Paren")}, TRUE), "Err", Unit)
        ELSE
        With(peek(r.p, 0), LAMBDA pk :
            IF pk.val.tkn = Comma
            THEN With(peek(bump(pk.p), 0), LAMBDA pk2 :
                     IF pk2.val.tkn = CloseDelim("Paren")
                     THEN R(add_diag(pk2.p, Diag("Warning",
                                <<"Superfluous trailing comma">>, pk.val.sp)), "Ok", Unit)
                     ELSE modport_port_decls(pk2.p))
            ELSE IF pk.val.tkn = CloseDelim("Paren") THEN R(pk.p, "Ok", Unit)
            ELSE R(add_diag(pk.p, Diag("Error",
                       <<"Expected , or ) after port declaration, got",
                         pk.val.tkn.k, pk.val.tkn.v>>, pk.val.sp)), "Err", Unit)))

\* `if !p.try_eat(delim) { ...; return Err(()); }` of parse_modport_item.
modport_delim(p, delim, msg, name) ==
    With(try_eat(p, delim), LAMBDA o :
        IF o.val THEN R(o.p, "Ok", Unit)
        ELSE With(peek(o.p, 0), LAMBDA q :
                 R(add_diag(q.p, Diag("Error", <<msg, name, q.val.tkn.k, q.val.tkn.v>>,
                                      q.val.sp)), "Err", Unit)))

parse_modport_item(p) ==
    With(eat_ident_or(p, "modport name"), LAMBDA n :
        IF n.res # "Ok" THEN R(add_diag(n.p, n.val), "Err", Unit)
        ELSE
        Try(modport_delim(n.p, OpenDelim("Paren"), "Expected ( after modport name, got",
                          n.val.name), LAMBDA o :
        Try(modport_port_decls(o.p), LAMBDA l :
            modport_delim(l.p, CloseDelim("Paren"),
                          "Expected ) after port list of modport, got", n.val.name))))

RECURSIVE parse_modport_decl(_)
parse_modport_decl(p) ==
    Try(parse_modport_item(p), LAMBDA i :
    With(peek(i.p, 0), LAMBDA pk :
        IF pk.val.tkn = Comma
        THEN With(peek(bump(pk.p), 0), LAMBDA pk2 :
                 IF pk2.val.tkn = Semicolon
                 THEN R(add_diag(pk2.p, Diag("Warning", <<"Superfluous trailing comma">>,
                                             pk.val.sp)), "Ok", Unit)
                 ELSE parse_modport_decl(pk2.p))
        ELSE IF pk.val.tkn = Semicolon THEN R(pk.p, "Ok", Unit)
        ELSE R(add_diag(pk.p, Diag("Error",
                   <<"Expected , or ; after modport declaration, got",
                     pk.val.tkn.k, pk.val.tkn.v>>, pk.val.sp)), "Err", Unit)))

hierarchy_item_wrapper(p, func(_), term) ==
    With(func(bump(p)), LAMBDA r :
        IF r.res = "Ok"
        THEN With(require(r.p, Semicolon), LAMBDA q :
                 R(IF q.res = "Ok" THEN q.p ELSE add_diag(q.p, q.val), "Ok", r.val))
        ELSE IF r.res = "Err" THEN R(recover(r.p, {term}, TRUE), "Err", Unit)
        ELSE r)

\* The optional assignment or port connection list of one variable
\* declaration assignment.
variable_assignment(p, name) ==
    With(peek(p, 0), LAMBDA pk :
        IF pk.val.tkn = Assign
        THEN R(recover_balanced(
                   add_diag(pk.p, Diag("Error",
                       <<"Default variable assignments not implemented, for variable",
                         name>>, pk.val.sp)),
                   {Comma, Semicolon}, FALSE), "Ok", Unit)
        ELSE IF pk.val.tkn = OpenDelim("Paren")
        THEN Try(parse_list_of_port_connections(bump(pk.p)), LAMBDA c :
                 require_reported(c.p, CloseDelim("Paren")))
        ELSE R(pk.p, "Ok", Unit))

\* The `loop` over the variable declaration assignments of try_hierarchy_item.
RECURSIVE variable_decl_assignments(_)
variable_decl_assignments(p) ==
    With(eat_ident_or(p, "variable or instance name"), LAMBDA n :
        IF n.res # "Ok" THEN R(add_diag(bump(n.p), n.val), "Err", Unit)
        ELSE
        Try(parse_optional_dimensions(n.p), LAMBDA d :
        Try(variable_assignment(d.p, n.val.name), LAMBDA x :
        With(peek(x.p, 0), LAMBDA pk1 :
            IF pk1.val.tkn = Semicolon THEN R(bump(pk1.p), "Ok", Unit)
            ELSE IF pk1.val.tkn = Comma
            THEN With(peek(bump(pk1.p), 0), LAMBDA pk2 :
                     IF pk2.val.tkn = Semicolon
                     THEN R(bump(add_diag(pk2.p, Diag("Warning",
                                <<"Superfluous trailing comma">>, pk1.val.sp))), "Ok", Unit)
                     ELSE variable_decl_assignments(pk2.p))
            ELSE R(recover(add_diag(pk1.p, Diag("Error",
                               <<"Expected , or ; after variable declaration">>, pk1.val.sp)),
                           {Semicolon}, TRUE), "Err", Unit)))))

ProcedureKeywords ==
    {Keyword("Initial"), Keyword("Always"), Keyword("AlwaysComb"), Keyword("AlwaysLatch"),
     Keyword("AlwaysFf"), Keyword("Final")}

\* The data declaration or instantiation of try_hierarchy_item, after the
\* keyword cases.
data_declaration(p) ==
    With(parse_data_type(p), LAMBDA ty :
        IF ty.res # "Ok" THEN R(recover_balanced(ty.p, {Semicolon}, TRUE), "Err", Unit)
        ELSE
        With(try_eat(ty.p, Hashtag), LAMBDA h :
            IF h.val
            THEN Try(parse_parameter_assignments(h.p),
                     LAMBDA pa : variable_decl_assignments(pa.p))
            ELSE variable_decl_assignments(h.p)))

\* The Option around the result is "Some" on every path of the function:
\* no path returns None.
try_hierarchy_item(p) ==
    With(peek(p, 0), LAMBDA pk :
    With(LET tkn == pk.val.tkn IN
         IF tkn = Keyword("Localparam")
         THEN hierarchy_item_wrapper(pk.p, parse_localparam_decl, Semicolon)
         ELSE IF tkn = Keyword("Parameter")
         THEN hierarchy_item_wrapper(pk.p, parse_parameter_decl, Semicolon)
         ELSE IF tkn = Keyword("Modport")
         THEN hierarchy_item_wrapper(pk.p, parse_modport_decl, Semicolon)
         ELSE IF tkn \in ProcedureKeywords THEN parse_procedure(pk.p, tkn.v)
         ELSE IF tkn = Keyword("Function") THEN parse_func_decl(pk.p)
         ELSE IF tkn = Keyword("Task") THEN parse_task_decl(pk.p)
         ELSE data_declaration(pk.p),
         LAMBDA r : [p |-> r.p, res |-> r.res, val |-> r.val, option |-> "Some"]))

(***************************************************************************)
(* Module and interface declarations: the header, up to the body loop.     *)
(***************************************************************************)
as_lifetime(tkn) ==
    CASE tkn = Keyword("Static")    -> Some("Static")
      [] tkn = Keyword("Automatic") -> Some("Automatic")
      [] OTHER                      -> None

\* `if p.try_eat(Hashtag) { parse_parameter_port_list(p)? } else { Vec::new() }`
optional_parameter_ports(p) ==
    With(try_eat(p, Hashtag), LAMBDA h :
        IF h.val THEN parse_parameter_port_list(h.p) ELSE R(h.p, "Ok", <<>>))

\* `if p.try_eat(OpenDelim(Paren)) { parse_port_list(p)? } else { Vec::new() }`
optional_ports(p) ==
    With(try_eat(p, OpenDelim("Paren")), LAMBDA o :
        IF o.val THEN parse_port_list(o.p) ELSE R(o.p, "Ok", <<>>))

\* header_semicolon with the token after the header consumed in the place of
\* the missing semicolon.
header_semicolon_bump(p, msg, name) ==
    With(try_eat(p, Semicolon), LAMBDA sc :
        IF sc.val THEN sc.p
        ELSE With(peek(sc.p, 0), LAMBDA q :
                 bump(add_diag(q.p, Diag("Error", <<msg, name>>, end_of(q.val.sp))))))

\* The semicolon after a header, or the diagnostic for its absence.
header_semicolon(p, msg, name) ==
    With(try_eat(p, Semicolon), LAMBDA sc :
        IF sc.val THEN sc.p
        ELSE With(peek(sc.p, 0), LAMBDA q :
                 add_diag(q.p, Diag("Error", <<msg, name>>, end_of(q.val.sp)))))

\* The common shape of the two headers; val is the locals span, lifetime,
\* name, name_sp, param_ports and ports.
decl_header(p, kind, name_msg, semi_msg) ==
    With(peek(p, 0), LAMBDA pk :
        LET lt == as_lifetime(pk.val.tkn) IN
        Try(eat_ident(IF lt.some THEN bump(pk.p) ELSE pk.p, name_msg), LAMBDA n :
        Try(optional_parameter_ports(n.p), LAMBDA params :
        Try(optional_ports(params.p), LAMBDA ports :
            R(header_semicolon(ports.p, semi_msg, n.val.name), "Ok",
              [kind |-> kind, span |-> p.last_span,
               lifetime |-> IF lt.some THEN lt.v ELSE "Static",
               name |-> n.val.name, name_span |-> n.val.span,
               param_ports |-> params.val, ports |-> ports.val])))))

\* parse_module_decl from its entry to the `while` over the items.
module_header(p) ==
    decl_header(p, "module", "module name", "Missing ; after header of module")

\* parse_interface_decl from its entry to the `while` over the items.
interface_header(p) ==
    decl_header(p, "interface", "interface name",
                "Missing semicolon after header of interface")

\* The body of the item loop of parse_module_decl / parse_interface_decl:
\* the `match try_hierarchy_item(p)` with its recovery to the end keyword.
body_item(p, end_keyword) ==
    With(try_hierarchy_item(p), LAMBDA r :
        IF r.res = "Panic" THEN R(r.p, "Panic", r.val)
        ELSE IF r.option = "Some"
        THEN (IF r.res = "Ok" THEN R(r.p, "Ok", Unit)
              ELSE R(recover(r.p, {end_keyword}, FALSE), "Ok", Unit))
        ELSE With(peek(r.p, 0), LAMBDA pk :
                 R(recover(add_diag(pk.p, Diag("Error", <<"Expected hierarchy item, got",
                                        pk.val.tkn.k, pk.val.tkn.v>>, pk.val.sp)),
                           {end_keyword}, FALSE), "Ok", Unit)))

\* The end of parse_module_decl / parse_interface_decl after the item loop:
\* the end keyword, or the diagnostic for its absence.
eat_end_keyword(p, end_keyword, msg, name) ==
    With(try_eat(p, end_keyword), LAMBDA e :
        IF e.val THEN e.p
        ELSE With(peek(e.p, 0), LAMBDA q :
                 add_diag(q.p, Diag("Error", <<msg, name>>, end_of(q.val.sp)))))

\* The declaration without the `span.expand(p.last_span())` before it.
Decl_unexpanded(c, p) ==
    [kind |-> c.kind, span |-> c.span, lifetime |-> c.lifetime,
     name |-> c.name, name_span |-> c.name_span, ports |-> c.ports]

\* The ModDecl / IntfDecl that is returned.
Decl(c, p) ==
    [kind |-> c.kind, span |-> expand(c.span, p.last_span), lifetime |-> c.lifetime,
     name |-> c.name, name_span |-> c.name_span, ports |-> c.ports]

\* The recovery loop of parse_source_text after a failed description:
\* forward through the next endmodule or endinterface.
RECURSIVE skip_description(_)
skip_description(p) ==
    With(peek(p, 0), LAMBDA pk :
        IF pk.val.tkn \in {Keyword("Endmodule"), Keyword("Endinterface")} THEN bump(pk.p)
        ELSE IF pk.val.tkn = Eof THEN pk.p
        ELSE skip_description(bump(pk.p)))

(***************************************************************************)
(* The state of the program as a parser record, and back.                  *)
(***************************************************************************)
P == [input |-> input, queue |-> queue, diagnostics |-> diagnostics,
      last_span |-> last_span]

SetP(p) ==
    /\ input' = p.input
    /\ queue' = p.queue
    /\ diagnostics' = p.diagnostics
    /\ last_span' = p.last_span

\* Parser::new
NewParser ==
    /\ input = 0
    /\ queue = <<>>
    /\ diagnostics = <<>>
    /\ last_span = INVALID_SPAN

\* What the last call returned to the harness; val is a record in every case.
Void  == [void |-> TRUE]
NoRet == [op |-> "none", k |-> 0, val |-> Void]
NoCur == [kind |-> "none"]

(***************************************************************************)
(* The cursor on its own: any sequence of peek(k) and bump calls on any    *)
(* short lexer stream.                                                     *)
(***************************************************************************)
CursorAlphabet == {Ident("a"), Semicolon, Keyword("Module"), LexError}

SeqsUpTo(S, n) == UNION {[1..m -> S] : m \in 0..n}

InitCursor ==
    /\ source \in SeqsUpTo(CursorAlphabet, MaxStream)
    /\ NewParser
    /\ pc = "cursor"
    /\ cur = NoCur
    /\ decls = <<>>
    /\ ret = NoRet

Peek(k) ==
    /\ pc = "cursor"
    /\ \E r \in {peek(P, k)} :
          /\ SetP(r.p)
          /\ ret' = [op |-> "peek", k |-> k, val |-> r.val]
    /\ UNCHANGED <<source, pc, cur, decls>>

Bump ==
    /\ pc = "cursor"
    /\ SetP(bump(P))
    /\ ret' = [op |-> "bump", k |-> 0, val |-> Void]
    /\ UNCHANGED <<source, pc, cur, decls>>

NextCursor == (\E k \in 0..MaxOffset : Peek(k)) \/ Bump

SpecCursor == InitCursor /\ [][NextCursor]_vars

(***************************************************************************)
(* The tokens still to come, read off the queue and the lexer's remaining  *)
(* items without calling the cursor.                                       *)
(***************************************************************************)
RECURSIVE LexFuture(_, _)
LexFuture(pos, n) ==
    IF pos >= Len(source) THEN TS(Eof, EofSpan)
    ELSE IF source[pos + 1] = LexError THEN LexFuture(pos + 1, n)
    ELSE IF n = 0 THEN TS(source[pos + 1], Span(pos + 1, pos + 1))
    ELSE LexFuture(pos + 1, n - 1)

Upcoming(j) ==
    IF j < Len(queue) THEN queue[j + 1] ELSE LexFuture(input, j - Len(queue))

Offsets == 0..(MaxOffset + 1)

\* C9: a peek(k) step returns the k-th upcoming token and changes neither the
\* upcoming tokens nor last_span; a bump step consumes exactly the token that
\* was upcoming at offset 0 and sets last_span to its span.
CursorContract ==
    [][ /\ ret'.op = "peek" =>
             /\ ret'.val = Upcoming(ret'.k)
             /\ last_span' = last_span
             /\ \A j \in Offsets : Upcoming(j)' = Upcoming(j)
        /\ ret'.op = "bump" =>
             /\ last_span' = Upcoming(0).sp
             /\ \A j \in Offsets : Upcoming(j)' = Upcoming(j + 1) ]_vars

\* A bump has consumed the second token of the stream while a later token
\* was already buffered by an earlier peek.
CursorContractWitness ==
    /\ ret.op = "bump"
    /\ last_span = Span(2, 2)
    /\ Len(queue) > 0
    /\ queue[1].tkn # Eof

\* The offset of the end-of-input token among the upcoming tokens.
EofPos == Cardinality({i \in 1..Len(queue) : queue[i].tkn # Eof})

\* C10: once the lexer has produced end-of-input, peek(k) returns the
\* end-of-input token with its one span for every offset at or beyond the
\* position of end-of-input, whatever peeks and bumps came before.
EofSticky ==
    input > Len(source) =>
        \A k \in Offsets : k >= EofPos => peek(P, k).val = TS(Eof, EofSpan)

\* A bump at end-of-input has consumed the end-of-input token of a stream
\* that held a real token, leaving the queue empty.
EofStickyWitness ==
    /\ ret.op = "bump"
    /\ input > Len(source)
    /\ Len(source) > 0
    /\ queue = <<>>
    /\ last_span = EofSpan


(***************************************************************************)
(* The cursor as an index into the lexer's token sequence.                 *)
(***************************************************************************)
\* The tokens among the first m items of the lexer stream.
RealCount(m) == Cardinality({i \in 1..m : source[i] # LexError})

\* How many tokens of the lexer's sequence have been consumed: those the
\* lexer has delivered less those still in the queue.
Consumed == RealCount(Min2(input, Len(source))) - EofPos

\* The j-th token (from 0) of the lexer's sequence, end-of-input past its end.
LexToken(j) == LexFuture(0, j)

\* C11: the cursor is an index into the lexer's token sequence that only
\* moves forward: it starts at 0, peek(k) is the token k places after the
\* index and leaves the index alone, and a bump consumes the token at the
\* index and moves the index on by one (it stays at end-of-input).
LexerIndex ==
    /\ Consumed = 0
    /\ [](\A k \in Offsets : peek(P, k).val = LexToken(Consumed + k))
    /\ [][ /\ ret'.op = "peek" => Consumed' = Consumed
           /\ ret'.op = "bump" =>
                /\ last_span' = LexToken(Consumed).sp
                /\ Consumed' = Min2(Consumed + 1, RealCount(Len(source))) ]_vars

\* A peek(0) after one bump has returned the second token of a stream in
\* which a lexer error precedes that token.
LexerIndexWitness ==
    /\ ret.op = "peek"
    /\ ret.k = 0
    /\ Consumed = 1
    /\ last_span # INVALID_SPAN
    /\ ret.val = LexToken(1)
    /\ ret.val.tkn # Eof
    /\ \E i \in 1..Len(source) : source[i] = LexError /\ i < ret.val.sp.begin
(***************************************************************************)
(* parse_port_list on its own: the token streams are port lists after the  *)
(* opening parenthesis, of up to MaxPorts ports, each with or without a    *)
(* direction, a net type or `var`, and a data type.                        *)
(***************************************************************************)
RECURSIVE Concat(_)
Concat(ss) == IF ss = <<>> THEN <<>> ELSE Head(ss) \o Concat(Tail(ss))

Num(x) == UnsignedNumber(x)

PortDirections ==
    {<<>>, <<Keyword("Input")>>, <<Keyword("Output")>>, <<Keyword("Inout")>>,
     <<Keyword("Ref")>>}
PortKinds == {<<>>, <<Keyword("Var")>>, <<Keyword("Wire")>>}
PortTypes ==
    {<<>>, <<Keyword("Bit")>>,
     <<OpenDelim("Brack"), Num("7"), Colon, Num("0"), CloseDelim("Brack")>>}

PortName(i) == IF i = 1 THEN "a" ELSE IF i = 2 THEN "b" ELSE IF i = 3 THEN "c" ELSE "d"

\* What one port of an input gives before its name: direction, kind, type.
PortChoices == PortDirections \X PortKinds \X PortTypes

\* The tokens of the i-th port of a list and of the comma or the closing
\* parenthesis after it.
PortTokens(c, i, last) ==
    c[1] \o c[2] \o c[3] \o <<Ident(PortName(i))>> \o
    (IF last THEN <<CloseDelim("Paren")>> ELSE <<Comma>>)

\* The port list whose i-th port is given by f[i].
PortList(f) == Concat([i \in 1..Len(f) |-> PortTokens(f[i], i, i = Len(f))])

InitPorts ==
    /\ \E n \in 1..MaxPorts : \E f \in [1..n -> PortChoices] : source = PortList(f)
    /\ NewParser
    /\ pc = "parse_port_list"
    /\ cur = NoCur
    /\ decls = <<>>
    /\ ret = NoRet

\* The call of parse_port_list after the opening parenthesis.
CallPortList ==
    /\ pc = "parse_port_list"
    /\ \E r \in {parse_port_list(P)} :
          /\ SetP(r.p)
          /\ ret' = [op |-> "parse_port_list", k |-> 0,
                     val |-> [res |-> r.res,
                              ports |-> IF r.res = "Ok" THEN r.val ELSE <<>>]]
    /\ pc' = "returned"
    /\ UNCHANGED <<source, cur, decls>>

NextPorts == CallPortList

SpecPorts == InitPorts /\ [][NextPorts]_vars

PortListReturned == ret.op = "parse_port_list"
Ports == ret.val.ports

PortEnd == {Comma, CloseDelim("Paren")}

\* The positions of the ports that are only a name, after a comma.
NameOnlyPorts ==
    {i \in 2..(Len(source) - 1) :
        /\ source[i].k = "Ident"
        /\ source[i - 1] = Comma
        /\ source[i + 1] \in PortEnd}

\* C6: a port that is only a name, right after a port that was returned, is
\* returned as the next port of the list with the direction, the kind and
\* the type of that port.
PortInheritance ==
    PortListReturned =>
        \A i \in NameOnlyPorts : \A m \in 1..Len(Ports) :
            Ports[m].span.end = i - 2 =>
                /\ m < Len(Ports)
                /\ Ports[m + 1].name_span = Span(i, i)
                /\ Ports[m + 1].dir = Ports[m].dir
                /\ Ports[m + 1].kind = Ports[m].kind
                /\ Ports[m + 1].ty = Ports[m].ty

\* The positions of the ports that are a direction and a name.
DirectionOnlyPorts ==
    {i \in 1..(Len(source) - 2) :
        /\ as_port_direction(source[i]).some
        /\ source[i + 1].k = "Ident"
        /\ source[i + 2] \in PortEnd
        /\ (i = 1 \/ source[i - 1] = Comma)}

\* The default table of the port kind as the specification states it.
KindTable(dir, implicit) ==
    IF dir \in {"Input", "Inout"} THEN "NetPort"
    ELSE IF dir = "Ref" THEN "VarPort"
    ELSE IF implicit THEN "NetPort"
    ELSE "VarPort"

\* C7: a port that is a direction and a name is returned with that
\* direction, with the type logic without dimensions, and with the kind of
\* the default table.
PartialOmissionDefaults ==
    PortListReturned =>
        \A i \in DirectionOnlyPorts : \E n \in 1..Len(Ports) :
            /\ Ports[n].span.begin = i
            /\ Ports[n].name_span = Span(i + 1, i + 1)
            /\ Ports[n].dir = as_port_direction(source[i]).v
            /\ Ports[n].ty.data = LogicType
            /\ Ports[n].ty.dims = <<>>
            /\ Ports[n].kind = KindTable(Ports[n].dir, FALSE)

\* The direction keyword of the port that starts at position i, if any, and
\* whether a net type or `var` follows it.
StatedDirection(i) == as_port_direction(source[i])
HasKindKeyword(i) ==
    as_port_kind(source[IF StatedDirection(i).some THEN i + 1 ELSE i]).some

\* C8: every returned port without a net type or `var` keyword has the
\* direction it states, or inout when it states none, and the kind that the
\* default table gives for its direction and for whether its type is
\* implicit.
PortKindDefaults ==
    PortListReturned =>
        \A n \in 1..Len(Ports) :
            ~HasKindKeyword(Ports[n].span.begin) =>
                /\ Ports[n].dir = (IF StatedDirection(Ports[n].span.begin).some
                                   THEN StatedDirection(Ports[n].span.begin).v
                                   ELSE "Inout")
                /\ Ports[n].kind = KindTable(Ports[n].dir, Ports[n].ty.data = ImplicitType)

\* parse_port_list has returned an output port with an implicit type and no
\* kind keyword, and after it an output port with an explicit type.
PortKindDefaultsWitness ==
    /\ PortListReturned
    /\ Len(Ports) = 2
    /\ source[1] = Keyword("Output")
    /\ source[2] = OpenDelim("Brack")
    /\ Ports[1].dir = "Output" /\ Ports[1].ty.data = ImplicitType
    /\ Ports[1].kind = "NetPort"
    /\ ~HasKindKeyword(Ports[2].span.begin)
    /\ Ports[2].dir = "Output" /\ Ports[2].ty.data = TypeData("BitType", "")
    /\ Ports[2].kind = "VarPort"

(***************************************************************************)
(* The token streams of the driver: one declaration with a header, up to   *)
(* MaxItems body fragments and an end, then possibly a second description. *)
(***************************************************************************)
\* Headers that follow the header grammar: optional lifetime, name, optional
\* parameter port list, optional port list, semicolon.
WellFormedHeaders ==
    { <<Ident("Foo"), Semicolon>>,
      <<Keyword("Automatic"), Ident("Foo"), Semicolon>>,
      <<Ident("Foo"), Hashtag, OpenDelim("Paren"), CloseDelim("Paren"), Semicolon>>,
      <<Ident("Foo"), Hashtag, OpenDelim("Paren"), Keyword("Parameter"), Ident("bar"), Assign,
        Num("32"), CloseDelim("Paren"), Semicolon>>,
      <<Ident("Foo"), Hashtag, OpenDelim("Paren"), Keyword("Parameter"), Ident("bar"), Assign,
        Num("32"), Comma, Ident("baz"), Assign, Num("64"), CloseDelim("Paren"), Semicolon>>,
      <<Ident("Foo"), OpenDelim("Paren"), CloseDelim("Paren"), Semicolon>>,
      <<Ident("Foo"), OpenDelim("Paren"), Keyword("Input"), Keyword("Bit"), Ident("a"),
        CloseDelim("Paren"), Semicolon>>,
      <<Keyword("Static"), Ident("Foo"), Hashtag, OpenDelim("Paren"), Keyword("Parameter"),
        Ident("bar"), Assign, Num("32"), CloseDelim("Paren"), OpenDelim("Paren"),
        Keyword("Output"), Keyword("Bit"), Ident("a"), CloseDelim("Paren"), Semicolon>>,
      <<Ident("Foo"), OpenDelim("Paren"), Keyword("Input"), Keyword("Bit"), Ident("a"), Comma,
        Ident("b"), CloseDelim("Paren"), Semicolon>> }

HeaderFragments ==
    WellFormedHeaders \cup
    { <<Ident("Foo")>>,
      <<Semicolon>>,
      <<Ident("Foo"), OpenDelim("Paren"), Period, Ident("a"), CloseDelim("Paren"), Semicolon>> }

ItemFragments ==
    { <<Ident("undefined_construct")>>,
      <<Ident("T"), Ident("x"), Semicolon>>,
      <<Ident("x"), Semicolon>>,
      <<Keyword("Initial"), Semicolon>>,
      <<Keyword("Initial"), OpenDelim("Bgend"), CloseDelim("Bgend")>>,
      <<Keyword("Initial"), Keyword("Fork"), Keyword("Join")>>,
      <<Keyword("Initial"), Keyword("Fork"), Semicolon>>,
      <<Keyword("Localparam"), Ident("a"), Assign, Num("1"), Semicolon>>,
      <<Keyword("Localparam"), Assign, Semicolon>>,
      <<Keyword("Parameter"), Semicolon>>,
      <<CloseDelim("Paren")>> }

EndFragments == { <<Keyword("Endmodule")>>, <<Keyword("Endinterface")>>, <<>> }

SecondDescriptions ==
    { <<>>,
      <<Keyword("Module"), Ident("B"), Semicolon, Keyword("Endmodule")>>,
      <<Keyword("Interface"), Ident("B"), Semicolon, Keyword("Endinterface")>>,
      <<Semicolon>> }

Bodies == {Concat(fs) : fs \in SeqsUpTo(ItemFragments, MaxItems)}

\* Bodies whose items parse without a diagnostic.
CleanBodies ==
    { <<>>,
      <<Keyword("Initial"), Semicolon>>,
      <<Keyword("Localparam"), Ident("a"), Assign, Num("1"), Semicolon>>,
      <<Keyword("Initial"), Semicolon, Keyword("Initial"), Semicolon>> }

\* A declaration whose header lacks its semicolon, with a clean body and the
\* matching end keyword.
MissingSemicolonInputs ==
    { <<kw, Ident("Foo")>> \o body \o
      <<IF kw = Keyword("Module") THEN Keyword("Endmodule") ELSE Keyword("Endinterface")>> :
          kw \in {Keyword("Module"), Keyword("Interface")},
          body \in CleanBodies }

DriverInputs ==
    { <<kw>> \o hdr \o <<e>> :
          kw \in {Keyword("Module"), Keyword("Interface")},
          hdr \in HeaderFragments,
          e \in {Keyword("Endmodule"), Keyword("Endinterface")} }
    \cup
    { <<kw>> \o <<Ident("Foo"), Semicolon>> \o body \o e \o snd :
          kw \in {Keyword("Module"), Keyword("Interface")},
          body \in Bodies,
          e \in EndFragments,
          snd \in SecondDescriptions }
    \cup MissingSemicolonInputs
    \cup SecondDescriptions

(***************************************************************************)
(* The driver: parse, parse_source_text and the declaration bodies.        *)
(***************************************************************************)
Panic(msg) == [op |-> "panic", k |-> 0, val |-> [message |-> msg]]

\* parse is called with a lexer over some token stream: Parser::new, then
\* the call of parse_source_text.
ParseCall ==
    /\ pc = "start"
    /\ source' \in DriverInputs
    /\ pc' = "parse_source_text"
    /\ UNCHANGED <<input, queue, diagnostics, last_span, cur, decls, ret>>

\* parse_source_text sees `module`: the keyword is consumed and the header
\* of parse_module_decl parsed; a failed header is `good = false` and the
\* recovery loop.
DescriptionModule ==
    /\ pc = "parse_source_text"
    /\ \E pk \in {peek(P, 0)} :
          /\ pk.val.tkn = Keyword("Module")
          /\ \E h \in {module_header(bump(pk.p))} :
                IF h.res = "Ok"
                THEN /\ SetP(h.p)
                     /\ cur' = h.val
                     /\ pc' = "parse_module_decl"
                ELSE /\ SetP(skip_description(h.p))
                     /\ cur' = NoCur
                     /\ pc' = "parse_source_text"
    /\ UNCHANGED <<source, decls, ret>>

\* parse_source_text sees `interface`: the header of parse_interface_decl.
DescriptionInterface ==
    /\ pc = "parse_source_text"
    /\ \E pk \in {peek(P, 0)} :
          /\ pk.val.tkn = Keyword("Interface")
          /\ \E h \in {interface_header(bump(pk.p))} :
                IF h.res = "Ok"
                THEN /\ SetP(h.p)
                     /\ cur' = h.val
                     /\ pc' = "parse_interface_decl"
                ELSE /\ SetP(skip_description(h.p))
                     /\ cur' = NoCur
                     /\ pc' = "parse_source_text"
    /\ UNCHANGED <<source, decls, ret>>

\* parse_source_text sees a token that starts no description.
DescriptionUnexpected ==
    /\ pc = "parse_source_text"
    /\ \E pk \in {peek(P, 0)} :
          /\ pk.val.tkn \notin {Keyword("Module"), Keyword("Interface"), Eof}
          /\ SetP(skip_description(
                     add_diag(pk.p, Diag("Fatal",
                         <<"Expected top-level description, instead got",
                           pk.val.tkn.k, pk.val.tkn.v>>, pk.val.sp))))
    /\ UNCHANGED <<source, pc, cur, decls, ret>>

\* parse_source_text sees end-of-input and returns to parse.
SourceTextEof ==
    /\ pc = "parse_source_text"
    /\ \E pk \in {peek(P, 0)} :
          /\ pk.val.tkn = Eof
          /\ SetP(pk.p)
    /\ pc' = "parse"
    /\ UNCHANGED <<source, cur, decls, ret>>

\* `while p.peek(0).0 != Keyword(Kw::Endmodule) && p.peek(0).0 != Eof`: the
\* test holds and the body of the loop is entered.
ModuleLoopTest ==
    /\ pc = "parse_module_decl"
    /\ \E pk \in {peek(P, 0)} :
          /\ pk.val.tkn # Keyword("Endmodule") /\ pk.val.tkn # Eof
          /\ SetP(pk.p)
    /\ pc' = "module_item"
    /\ UNCHANGED <<source, cur, decls, ret>>

\* The body of the item loop of parse_module_decl, back to the test of the
\* loop unless a panic unwinds the program.
ModuleItem ==
    /\ pc = "module_item"
    /\ \E r \in {body_item(P, Keyword("Endmodule"))} :
          /\ SetP(r.p)
          /\ IF r.res = "Panic"
             THEN pc' = "panic" /\ ret' = Panic(r.val)
             ELSE pc' = "parse_module_decl" /\ ret' = ret
    /\ UNCHANGED <<source, cur, decls>>

\* The item loop of parse_module_decl ends: endmodule is eaten or reported
\* missing, and the declaration is returned to parse_source_text.
ModuleEnd ==
    /\ pc = "parse_module_decl"
    /\ \E pk \in {peek(P, 0)} :
          /\ ~(pk.val.tkn # Keyword("Endmodule") /\ pk.val.tkn # Eof)
          /\ \E q \in {eat_end_keyword(pk.p, Keyword("Endmodule"),
                                       "Missing endmodule at the end of", cur.name)} :
                /\ SetP(q)
                /\ decls' = Append(decls, Decl(cur, q))
    /\ cur' = NoCur
    /\ pc' = "parse_source_text"
    /\ UNCHANGED <<source, ret>>

\* `while p.peek(0).0 != Keyword(Kw::Endinterface)`: the test holds and the
\* body of the loop is entered.
InterfaceLoopTest ==
    /\ pc = "parse_interface_decl"
    /\ \E pk \in {peek(P, 0)} :
          /\ pk.val.tkn # Keyword("Endinterface")
          /\ SetP(pk.p)
    /\ pc' = "interface_item"
    /\ UNCHANGED <<source, cur, decls, ret>>

\* The body of the item loop of parse_interface_decl.
InterfaceItem ==
    /\ pc = "interface_item"
    /\ \E r \in {body_item(P, Keyword("Endinterface"))} :
          /\ SetP(r.p)
          /\ IF r.res = "Panic"
             THEN pc' = "panic" /\ ret' = Panic(r.val)
             ELSE pc' = "parse_interface_decl" /\ ret' = ret
    /\ UNCHANGED <<source, cur, decls>>

\* The item loop of parse_interface_decl ends.
InterfaceEnd ==
    /\ pc = "parse_interface_decl"
    /\ \E pk \in {peek(P, 0)} :
          /\ ~(pk.val.tkn # Keyword("Endinterface"))
          /\ \E q \in {eat_end_keyword(pk.p, Keyword("Endinterface"),
                                       "Missing endinterface at the end of", cur.name)} :
                /\ SetP(q)
                /\ decls' = Append(decls, Decl(cur, q))
    /\ cur' = NoCur
    /\ pc' = "parse_source_text"
    /\ UNCHANGED <<source, ret>>

\* parse: the assertion after parse_source_text holds and parse returns.
ParseReturn ==
    /\ pc = "parse"
    /\ diagnostics = <<>>
    /\ pc' = "returned"
    /\ UNCHANGED <<source, input, queue, diagnostics, last_span, cur, decls, ret>>

\* parse: the assertion after parse_source_text fails.
ParseAssertFails ==
    /\ pc = "parse"
    /\ diagnostics # <<>>
    /\ pc' = "panic"
    /\ ret' = Panic(<<"assertion failed: p.get_diagnostics().is_empty()">>)
    /\ UNCHANGED <<source, input, queue, diagnostics, last_span, cur, decls>>

Next ==
    \/ ParseCall
    \/ DescriptionModule
    \/ DescriptionInterface
    \/ DescriptionUnexpected
    \/ SourceTextEof
    \/ ModuleLoopTest
    \/ ModuleItem
    \/ ModuleEnd
    \/ InterfaceLoopTest
    \/ InterfaceItem
    \/ InterfaceEnd
    \/ ParseReturn
    \/ ParseAssertFails

\* Before the call of parse: no lexer yet.
Init ==
    /\ source = <<>>
    /\ NewParser
    /\ pc = "start"
    /\ cur = NoCur
    /\ decls = <<>>
    /\ ret = NoRet

Spec == Init /\ [][Next]_vars

\* The call chain is sequential code: a step that can be taken is taken.
FairSpec == Spec /\ WF_vars(Next)

(***************************************************************************)
(* Properties of the driver.                                               *)
(***************************************************************************)
\* parse_source_text has returned to parse, or a panic has ended the program.
SourceTextDone == pc \in {"parse", "returned", "panic"}

ErrorDiags == {i \in 1..Len(diagnostics) : diagnostics[i].severity = "Error"}

\* C1: on every finite token stream parse_source_text terminates, also when
\* the input ends inside the body of a module or of an interface.
SourceTextTerminates == <>SourceTextDone

EndKeywordOf(kw) ==
    IF kw = Keyword("Module") THEN Keyword("Endmodule") ELSE Keyword("Endinterface")

\* The positions at which a later description starts: a `module` or
\* `interface` right after the end keyword of the first description.
LaterDescriptionStarts ==
    {i \in 2..Len(source) :
        /\ source[i] \in {Keyword("Module"), Keyword("Interface")}
        /\ source[1] \in {Keyword("Module"), Keyword("Interface")}
        /\ source[i - 1] = EndKeywordOf(source[1])
        /\ \A j \in 2..(i - 2) : source[j] # EndKeywordOf(source[1])}

\* C2: when parse_source_text has returned, every description of the stream
\* that follows a description with a malformed body was parsed into a
\* declaration of its own.
LaterDeclarationsParsed ==
    pc = "parse" =>
        \A i \in LaterDescriptionStarts :
            \E n \in 1..Len(decls) : decls[n].span.begin = i

\* C3: parse_stmt never panics over the terminator that parse_block returned
\* for a fork block.
NoInvalidTerminatorPanic ==
    ~(pc = "panic" /\ ret.val.message[1] = "Invalid parallel block terminator")

\* C4: parse returns normally also when diagnostics were reported.
ParseCompletesWithDiagnostics ==
    ~(pc = "panic" /\ ret.val.message[1] = "assertion failed: p.get_diagnostics().is_empty()")

UndefinedConstructInput ==
    <<Keyword("Module"), Ident("Foo"), Semicolon, Ident("undefined_construct"),
      Keyword("Endmodule")>>

UndefinedConstructResult ==
    /\ pc = "parse"
    /\ Len(decls) = 1
    /\ decls[1].kind = "module"
    /\ decls[1].name = "Foo"
    /\ ErrorDiags # {}
    /\ decls[1].span = Span(1, 5)
    /\ Upcoming(0).tkn = Eof

\* C5: on `module Foo ; undefined_construct endmodule` parse_source_text
\* terminates with one module declaration that ends at the endmodule token
\* and with at least one Error diagnostic.
UndefinedConstructRecovered ==
    (pc = "parse_source_text" /\ source = UndefinedConstructInput)
        ~> UndefinedConstructResult

\* parse_source_text has returned on that stream, the endmodule token being
\* the last token consumed.
UndefinedConstructWitness ==
    /\ source = UndefinedConstructInput
    /\ UndefinedConstructResult
    /\ last_span = Span(5, 5)


\* A header alone in its declaration, closed by the matching end keyword.
HeaderOnly(kw, hdr) == <<kw>> \o hdr \o <<EndKeywordOf(kw)>>

\* C12: parse_source_text has returned on a well-formed header followed by
\* the matching end keyword with no diagnostic and one declaration whose
\* span runs from the introducing keyword through the end keyword; for
\* `interface Foo ; endinterface` the port and parameter lists are empty.
WellFormedHeaderParsed ==
    /\ \A kw \in {Keyword("Module"), Keyword("Interface")}, hdr \in WellFormedHeaders :
          (pc = "parse" /\ source = HeaderOnly(kw, hdr)) =>
              /\ diagnostics = <<>>
              /\ Len(decls) = 1
              /\ decls[1].kind = (IF kw = Keyword("Module") THEN "module" ELSE "interface")
              /\ decls[1].span = Span(1, Len(source))
    /\ source = HeaderOnly(Keyword("Interface"), <<Ident("Foo"), Semicolon>>) =>
          /\ pc = "parse_interface_decl" => cur.ports = <<>> /\ cur.param_ports = <<>>
          /\ pc = "parse" => decls[1].ports = <<>>

(***************************************************************************)
(* Single parsing functions called on their own, each on the token streams *)
(* of its construct.                                                       *)
(***************************************************************************)
MaxParams == 3    \* most parameters in one parameter port list of the inputs
MaxList   == 2    \* most elements in one of the other lists of the inputs
MaxStmts  == 2    \* most statements in one block of the inputs
MaxDims   == 2    \* most dimensions after one data type of the inputs

\* What follows the name of a parameter: nothing, a default, or `=` alone.
ParamDefaults ==
    {<<>>, <<Assign, Num("32")>>, <<Assign, Num("64")>>, <<Assign>>}

\* One parameter of an input: with or without the `parameter` keyword in
\* front of it, and what follows its name.
ParamChoices == BOOLEAN \X ParamDefaults

ParamName(i) == IF i = 1 THEN "bar" ELSE IF i = 2 THEN "baz" ELSE IF i = 3 THEN "qux" ELSE "quux"

\* The parameter port list after the `#`: the i-th parameter is given by
\* f[i]; `trailing` puts a comma before the closing parenthesis.
ParamList(f, trailing) ==
    <<OpenDelim("Paren")>> \o
    Concat([i \in 1..Len(f) |->
               (IF f[i][1] THEN <<Keyword("Parameter")>> ELSE <<>>) \o
               <<Ident(ParamName(i))>> \o f[i][2] \o
               (IF i < Len(f) \/ trailing THEN <<Comma>> ELSE <<>>)]) \o
    <<CloseDelim("Paren")>>

\* The call of parse_parameter_port_list after the `#`.
CallParameterPortList ==
    /\ pc = "parse_parameter_port_list"
    /\ \E r \in {parse_parameter_port_list(P)} :
          /\ SetP(r.p)
          /\ ret' = [op |-> "parse_parameter_port_list", k |-> 0,
                     val |-> [res |-> r.res,
                              n |-> IF r.res = "Ok" THEN Len(r.val) ELSE 0]]
    /\ pc' = "returned"
    /\ UNCHANGED <<source, cur, decls>>

\* A list that ends with its closing delimiter, with a comma put before it.
WithTrailingComma(s) == SubSeq(s, 1, Len(s) - 1) \o <<Comma, s[Len(s)]>>

\* The ports of the port lists: those that give a direction and a type.
FullPortChoices == {c \in PortChoices : c[1] # <<>> /\ c[3] # <<>>}

\* A modport item `foo ( ... )`: the i-th simple port is PortName(i), with
\* a direction in front of it where f[i] says so.
ModportDirections == {<<>>, <<Keyword("Input")>>, <<Keyword("Output")>>}

ModportItem(f) ==
    <<Ident("foo"), OpenDelim("Paren")>> \o
    Concat([i \in 1..Len(f) |->
               f[i] \o <<Ident(PortName(i))>> \o
               (IF i < Len(f) THEN <<Comma>> ELSE <<>>)]) \o
    <<CloseDelim("Paren")>>

\* One port connection: `.a`, `.a()`, `.a(b)`, or an expression.
ConnectionChoices ==
    {<<Period, Ident("a")>>,
     <<Period, Ident("a"), OpenDelim("Paren"), CloseDelim("Paren")>>,
     <<Period, Ident("a"), OpenDelim("Paren"), Ident("b"), CloseDelim("Paren")>>,
     <<Ident("b")>>}

\* The elements f[1], f[2], ... with commas between them.
CommaSeparated(f) ==
    Concat([i \in 1..Len(f) |-> f[i] \o (IF i < Len(f) THEN <<Comma>> ELSE <<>>)])

\* A port-connection list after its opening parenthesis.
ConnectionList(f) == CommaSeparated(f) \o <<CloseDelim("Paren")>>

\* The expressions of a concatenation.
ConcatChoices == {<<Ident("a")>>, <<Num("1")>>, <<Ident("a"), Sym("Add"), Num("1")>>}

\* A concatenation `{ ... }`.
Concatenation(f) ==
    <<OpenDelim("Brace")>> \o CommaSeparated(f) \o <<CloseDelim("Brace")>>

\* The call of parse_modport_item.
CallModportItem ==
    /\ pc = "parse_modport_item"
    /\ \E r \in {parse_modport_item(P)} :
          /\ SetP(r.p)
          /\ ret' = [op |-> "parse_modport_item", k |-> 0,
                     val |-> [res |-> r.res, n |-> 0]]
    /\ pc' = "returned"
    /\ UNCHANGED <<source, cur, decls>>

\* The call of parse_list_of_port_connections after the opening parenthesis.
CallPortConnections ==
    /\ pc = "parse_list_of_port_connections"
    /\ \E r \in {parse_list_of_port_connections(P)} :
          /\ SetP(r.p)
          /\ ret' = [op |-> "parse_list_of_port_connections", k |-> 0,
                     val |-> [res |-> r.res, n |-> 0]]
    /\ pc' = "returned"
    /\ UNCHANGED <<source, cur, decls>>

\* The call of parse_expr on a concatenation.
CallExpr ==
    /\ pc = "parse_expr"
    /\ \E r \in {parse_expr(P)} :
          /\ SetP(r.p)
          /\ ret' = [op |-> "parse_expr", k |-> 0, val |-> [res |-> r.res, n |-> 0]]
    /\ pc' = "returned"
    /\ UNCHANGED <<source, cur, decls>>

\* The label of a statement input in front of the statement and after the
\* opening keyword: none, foo, bar.
LabelChoices == {<<>>, <<"foo">>, <<"bar">>}

\* What follows the closing keyword: nothing, or a label with or without a
\* colon in front of it.
CloseLabelChoices ==
    {<<>>, <<Colon, Ident("foo")>>, <<Colon, Ident("bar")>>, <<Ident("foo")>>,
     <<Ident("bar")>>}

BlockOpeners == {OpenDelim("Bgend"), Keyword("Fork")}
BlockClosers == {CloseDelim("Bgend")} \cup JoinTerminators

\* One statement of a block: a null statement, or one that parse_stmt does
\* not know.
StmtChoices == {<<Semicolon>>, <<Ident("a"), Semicolon>>}

\* A block statement `l1 : opener : l2 stmts closer l3`, each label there
\* or not.
BlockStmt(l1, opener, l2, stmts, closer, l3) ==
    (IF l1 = <<>> THEN <<>> ELSE <<Ident(l1[1]), Colon>>) \o
    <<opener>> \o
    (IF l2 = <<>> THEN <<>> ELSE <<Colon, Ident(l2[1])>>) \o
    Concat(stmts) \o <<closer>> \o l3

\* The call of parse_stmt.
CallStmt ==
    /\ pc = "parse_stmt"
    /\ \E r \in {parse_stmt(P)} :
          /\ SetP(r.p)
          /\ ret' = [op |-> "parse_stmt", k |-> 0,
                     val |-> [res |-> r.res, n |-> 0,
                              stmt |-> IF r.res = "Ok" THEN r.val ELSE Void]]
    /\ pc' = "returned"
    /\ UNCHANGED <<source, cur, decls>>

\* What a data type input starts with: a type keyword, another keyword, a
\* name, or nothing.
TypeKeywords ==
    {"Bit", "Logic", "Reg", "Byte", "Shortint", "Int", "Longint", "Integer", "Time"}

TypeStarts ==
    {<<Keyword(kw)>> : kw \in TypeKeywords} \cup
    {<<Keyword("Module")>>, <<Ident("T")>>, <<>>}

TypeSigns == {<<>>, <<Keyword("Signed")>>, <<Keyword("Unsigned")>>}

\* The four forms of a dimension.
DimForms ==
    {<<OpenDelim("Brack"), CloseDelim("Brack")>>,
     <<OpenDelim("Brack"), Sym("Mul"), CloseDelim("Brack")>>,
     <<OpenDelim("Brack"), Num("8"), CloseDelim("Brack")>>,
     <<OpenDelim("Brack"), Ident("N"), Sym("Sub"), Num("1"), CloseDelim("Brack")>>,
     <<OpenDelim("Brack"), Num("7"), Colon, Num("0"), CloseDelim("Brack")>>,
     <<OpenDelim("Brack"), Ident("N"), Sym("Sub"), Num("1"), Colon, Num("0"),
       CloseDelim("Brack")>>}

\* Dimensions of the inputs: the four forms and malformed ones.
DimChoices ==
    DimForms \cup
    {<<OpenDelim("Brack"), Num("7"), Colon, CloseDelim("Brack")>>,
     <<OpenDelim("Brack"), Num("7"), Semicolon>>,
     <<OpenDelim("Brack"), Sym("Mul"), Num("2"), CloseDelim("Brack")>>}

\* What follows the dimension or the data type in the stream.
Followers == {<<>>, <<Ident("x")>>, <<Semicolon>>, <<Comma, Ident("y")>>}

\* The call of parse_data_type.
CallDataType ==
    /\ pc = "parse_data_type"
    /\ \E r \in {parse_data_type(P)} :
          /\ SetP(r.p)
          /\ ret' = [op |-> "parse_data_type", k |-> 0,
                     val |-> [res |-> r.res, n |-> 0,
                              ty |-> IF r.res = "Ok" THEN r.val ELSE Void]]
    /\ pc' = "returned"
    /\ UNCHANGED <<source, cur, decls>>

\* The call of try_dimension.
CallDimension ==
    /\ pc = "try_dimension"
    /\ \E r \in {try_dimension(P)} :
          /\ SetP(r.p)
          /\ ret' = [op |-> "try_dimension", k |-> 0,
                     val |-> [res |-> r.res, n |-> 0,
                              dim |-> IF r.res = "Ok" THEN r.val ELSE None]]
    /\ pc' = "returned"
    /\ UNCHANGED <<source, cur, decls>>

\* A data declaration of the inputs: a type name or none, its dimension or
\* none, a variable name or none, its dimension or none, and the end.
Dim70 == <<OpenDelim("Brack"), Num("7"), Colon, Num("0"), CloseDelim("Brack")>>

DeclTypes == {<<>>, <<Ident("foo")>>}
DeclDims  == {<<>>, Dim70}
DeclNames == {<<>>, <<Ident("bar")>>}
DeclEnds  == {<<Semicolon>>, <<Comma, Ident("baz"), Semicolon>>, <<>>}

\* The call of try_hierarchy_item.
CallHierarchyItem ==
    /\ pc = "try_hierarchy_item"
    /\ \E r \in {try_hierarchy_item(P)} :
          /\ SetP(r.p)
          /\ ret' = [op |-> "try_hierarchy_item", k |-> 0,
                     val |-> [res |-> r.res, n |-> 0, option |-> r.option]]
    /\ pc' = "returned"
    /\ UNCHANGED <<source, cur, decls>>

\* Expressions of the forms that are not implemented, and implemented ones
\* next to them.
StreamingConcatenations ==
    {<<OpenDelim("Brace"), sh, Ident("a"), CloseDelim("Brace")>> : sh \in {Sym("Shl"), Sym("Shr")}}

CallExpressions ==
    {<<Ident("f"), OpenDelim("Paren")>> \o args \o <<CloseDelim("Paren")>> :
        args \in {<<>>, <<Ident("a")>>, <<Ident("a"), Comma, Num("1")>>}}

TaggedExpressions == {<<Keyword("Tagged"), Ident("a")>>, <<Keyword("Tagged"), Ident("a"), Num("1")>>}

OtherExpressions ==
    {<<Ident("a"), Sym("Add"), Num("1")>>,
     <<Ident("a"), OpenDelim("Brack"), Num("1"), CloseDelim("Brack")>>,
     <<Ident("a"), Period, Ident("b")>>,
     <<OpenDelim("Paren"), Ident("a"), CloseDelim("Paren")>>,
     <<Sym("Add")>>}


\* The tokens as_binary_operator knows.
BinaryOperatorTokens ==
    {Sym("Add"), Sym("Sub"), Sym("Mul"), Sym("Div"), Sym("Mod"), Sym("Shl"), Sym("Shr"),
     Sym("Pow"), Sym("Rarrow")}

\* `a op b` and `a op b op c` for the binary operator tokens, and `a +`.
BinaryOperations ==
    {<<Ident("a"), op, Ident("b")>> : op \in BinaryOperatorTokens} \cup
    {<<Ident("a"), Sym("Add")>>} \cup
    {<<Ident("a"), op1, Ident("b"), op2, Ident("c")>> :
        op1 \in {Sym("Add"), Sym("Mul")}, op2 \in {Sym("Add"), Sym("Shl"), Sym("Pow")}}

\* The call of parse_expr_prec with a minimum precedence.
CallExprPrec ==
    /\ pc = "parse_expr_prec"
    /\ \E precedence \in Precedence.Min..Precedence.Max :
       \E r \in {parse_expr_prec(P, precedence)} :
          /\ SetP(r.p)
          /\ ret' = [op |-> "parse_expr_prec", k |-> 0,
                     val |-> [res |-> r.res, n |-> 0, precedence |-> precedence]]
    /\ pc' = "returned"
    /\ UNCHANGED <<source, cur, decls>>

\* Expressions put between parentheses: a name, a number, a member access,
\* an index and a binary operation.
ParenOperands ==
    {<<Ident("a")>>, <<Num("1")>>, <<Ident("a"), Period, Ident("b")>>,
     <<Ident("a"), OpenDelim("Brack"), Num("1"), CloseDelim("Brack")>>,
     <<Ident("a"), Sym("Add"), Ident("b")>>}

\* `( e )`, `( e : e )` and `( e : e : e )`.
Parenthesized(es) ==
    <<OpenDelim("Paren")>> \o es[1] \o
    Concat([i \in 1..(Len(es) - 1) |-> <<Colon>> \o es[i + 1]]) \o
    <<CloseDelim("Paren")>>

\* The elements of the concatenations handed to parse_primary_expr.
PrimaryChoices == {<<Ident("a")>>, <<Num("1")>>, <<Ident("b")>>}

\* `{ n { a, b, ... } }`.
MultipleConcatenation(n, f) ==
    <<OpenDelim("Brace")>> \o n \o Concatenation(f) \o <<CloseDelim("Brace")>>

\* The call of parse_primary_expr.
CallPrimaryExpr ==
    /\ pc = "parse_primary_expr"
    /\ \E r \in {parse_primary_expr(P)} :
          /\ SetP(r.p)
          /\ ret' = [op |-> "parse_primary_expr", k |-> 0,
                     val |-> [res |-> r.res, n |-> 0]]
    /\ pc' = "returned"
    /\ UNCHANGED <<source, cur, decls>>

\* What stands after the `=` of a localparam assignment: a constant
\* expression, or tokens that no constant expression starts with.
LocalparamValues ==
    {<<Num("1")>>, <<>>, <<CloseDelim("Paren")>>, <<Keyword("Begin")>>,
     <<OpenDelim("Paren"), Num("1"), CloseDelim("Paren")>>}

\* What follows the semicolon of a localparam declaration in the body of a
\* module: nothing, the end of the module, a further item, a further top-level
\* declaration.
LaterItems ==
    {<<>>,
     <<Keyword("Endmodule")>>,
     <<Keyword("Localparam"), Ident("b"), Assign, Num("1"), Semicolon, Keyword("Endmodule")>>,
     <<Ident("foo"), Comma, Ident("baz"), Semicolon, Keyword("Endmodule")>>,
     <<Keyword("Endmodule"), Keyword("Module"), Ident("Bar"),
       OpenDelim("Paren"), CloseDelim("Paren"), Semicolon, Keyword("Endmodule")>>}

\* `localparam a = v ;` and `localparam a = 1 , b = v ;`.
LocalparamDecl(first, v) ==
    <<Keyword("Localparam")>> \o first \o <<Ident("a"), Assign>> \o v \o <<Semicolon>>
InitCalls ==
    /\ NewParser
    /\ cur = NoCur
    /\ decls = <<>>
    /\ ret = NoRet
    /\ \/ /\ pc = "parse_parameter_port_list"
          /\ \E n \in 0..MaxParams : \E f \in [1..n -> ParamChoices] :
                \E trailing \in BOOLEAN : source = ParamList(f, trailing)
       \/ /\ pc = "parse_port_list"
          /\ \E n \in 1..MaxList : \E f \in [1..n -> FullPortChoices] :
                source \in {PortList(f), WithTrailingComma(PortList(f))}
       \/ /\ pc = "parse_modport_item"
          /\ \E n \in 1..MaxList : \E f \in [1..n -> ModportDirections] :
                source \in {ModportItem(f), WithTrailingComma(ModportItem(f))}
       \/ /\ pc = "parse_list_of_port_connections"
          /\ \E n \in 0..MaxList : \E f \in [1..n -> ConnectionChoices] :
                source \in {ConnectionList(f), WithTrailingComma(ConnectionList(f))}
       \/ /\ pc = "parse_expr"
          /\ \/ \E n \in 1..MaxList : \E f \in [1..n -> ConcatChoices] :
                   source \in {Concatenation(f), WithTrailingComma(Concatenation(f))}
             \/ source \in StreamingConcatenations \cup CallExpressions \cup
                            TaggedExpressions \cup OtherExpressions
       \/ /\ pc = "parse_expr_prec"
          /\ source \in BinaryOperations
       \/ /\ pc = "parse_primary_expr"
          /\ \/ \E n \in 1..3 : \E es \in [1..n -> ParenOperands] :
                   source = Parenthesized(es)
             \/ \E n \in 1..(MaxList + 1) : \E f \in [1..n -> PrimaryChoices] :
                   \/ source = Concatenation(f)
                   \/ \E m \in PrimaryChoices : source = MultipleConcatenation(m, f)
                   \/ \E m \in PrimaryChoices :
                         source = <<OpenDelim("Brace")>> \o m \o Concatenation(<<f[1]>>)
                                    \o <<Comma>> \o f[n] \o <<CloseDelim("Brace")>>
       \/ /\ pc = "parse_expr"
          /\ source \in ParenOperands
       \/ /\ pc = "parse_stmt"
          /\ \E l1 \in LabelChoices, l2 \in LabelChoices, l3 \in CloseLabelChoices :
             \E opener \in BlockOpeners, closer \in BlockClosers :
             \E n \in 0..MaxStmts : \E f \in [1..n -> StmtChoices] :
                source = BlockStmt(l1, opener, l2, f, closer, l3)
       \/ /\ pc = "parse_data_type"
          /\ \E start \in TypeStarts, sign \in TypeSigns, follow \in Followers :
             \E n \in 0..MaxDims : \E f \in [1..n -> DimChoices] :
                source = start \o sign \o Concat(f) \o follow
       \/ /\ pc = "try_dimension"
          /\ \E dim \in DimChoices \cup {<<>>}, follow \in Followers \cup DimForms :
                source = dim \o follow
       \/ /\ pc = "try_hierarchy_item"
          /\ \E ty \in DeclTypes, tdim \in DeclDims, name \in DeclNames, ndim \in DeclDims :
             \E end \in DeclEnds :
                source = ty \o tdim \o name \o ndim \o end
       \/ /\ pc = "try_hierarchy_item"
          /\ \E first \in {<<>>, <<Ident("c"), Assign, Num("1"), Comma>>} :
             \E v \in LocalparamValues, later \in LaterItems :
                source = LocalparamDecl(first, v) \o later

NextCalls ==
    \/ CallParameterPortList
    \/ CallPortList
    \/ CallModportItem
    \/ CallPortConnections
    \/ CallExpr
    \/ CallExprPrec
    \/ CallPrimaryExpr
    \/ CallStmt
    \/ CallDataType
    \/ CallDimension
    \/ CallHierarchyItem

SpecCalls == InitCalls /\ [][NextCalls]_vars

(***************************************************************************)
(* Parameter port lists.                                                   *)
(***************************************************************************)
Diags(sev) == {i \in 1..Len(diagnostics) : diagnostics[i].severity = sev}

ParamListReturned == ret.op = "parse_parameter_port_list"

\* The positions of the parameter names in the list.
ParamNames == {i \in 1..Len(source) : source[i].k = "Ident"}

\* Every `=` of the list is followed by its value.
DefaultsGiven ==
    \A i \in 1..(Len(source) - 1) : source[i] = Assign => source[i + 1].k = "UnsignedNumber"

\* The list is `( )` or starts with `parameter`, and every default is given.
ParamListWellFormed ==
    /\ Len(source) = 2 \/ source[2] = Keyword("Parameter")
    /\ DefaultsGiven

TrailingComma == Len(source) > 2 /\ source[Len(source) - 1] = Comma

\* C13: a well-formed parameter port list without a trailing comma yields
\* one entry per parameter, whether a comma is followed by `parameter` (a
\* new sub-list) or by the next name (the same sub-list), with no
\* diagnostic; `( )` yields no entry.
ParameterSubLists ==
    (ParamListReturned /\ ParamListWellFormed /\ ~TrailingComma) =>
        /\ ret.val.res = "Ok"
        /\ ret.val.n = Cardinality(ParamNames)
        /\ diagnostics = <<>>

\* parse_parameter_port_list has returned two entries for
\* `( parameter bar = 32 , parameter baz = 64 )`.
ParameterSubListsWitness ==
    /\ ParamListReturned
    /\ source = ParamList(<<<<TRUE, <<Assign, Num("32")>>>>, <<TRUE, <<Assign, Num("64")>>>>>>,
                          FALSE)
    /\ ret.val.n = 2
    /\ diagnostics = <<>>

\* C14: a well-formed parameter port list whose last assignment is followed
\* by a comma and the closing parenthesis parses successfully with exactly
\* one Warning and no Error.
ParameterTrailingComma ==
    (ParamListReturned /\ ParamListWellFormed /\ TrailingComma) =>
        /\ ret.val.res = "Ok"
        /\ ret.val.n = Cardinality(ParamNames)
        /\ Cardinality(Diags("Warning")) = 1
        /\ Diags("Error") = {}

\* parse_parameter_port_list has returned on `( parameter bar = 32 , )`.
ParameterTrailingCommaWitness ==
    /\ ParamListReturned
    /\ source = ParamList(<<<<TRUE, <<Assign, Num("32")>>>>>>, TRUE)
    /\ ret.val.n = 1
    /\ Len(diagnostics) = 1
(***************************************************************************)
(* A comma before the closing delimiter of a list.                         *)
(***************************************************************************)
ClosingDelims == {CloseDelim("Paren"), CloseDelim("Brace")}

\* The list ends `, )` or `, }` after at least one element.
CommaBeforeClose ==
    /\ Len(source) > 2
    /\ source[Len(source)] \in ClosingDelims
    /\ source[Len(source) - 1] = Comma
    /\ source[Len(source) - 2] \notin {Comma, OpenDelim("Paren"), OpenDelim("Brace")}

\* The list parse succeeded with a Warning and without an Error.
WarnedOnly ==
    /\ ret.val.res = "Ok"
    /\ Diags("Warning") # {}
    /\ Diags("Error") = {}

ParameterListComma ==
    (ret.op = "parse_parameter_port_list" /\ ParamListWellFormed /\ CommaBeforeClose)
        => WarnedOnly

PortListComma ==
    (ret.op = "parse_port_list" /\ CommaBeforeClose) => WarnedOnly

\* The first simple port of the modport item has a direction in front.
ModportItemWellFormed == source[3].k = "Keyword"

ModportItemComma ==
    (ret.op = "parse_modport_item" /\ ModportItemWellFormed /\ CommaBeforeClose)
        => WarnedOnly

PortConnectionsComma ==
    (ret.op = "parse_list_of_port_connections" /\ CommaBeforeClose) => WarnedOnly

\* Every element of the concatenation is a single name or number.
ConcatenationOfPrimaries == \A i \in 1..Len(source) : source[i] # Sym("Add")

ConcatenationComma ==
    (ret.op = "parse_expr" /\ ConcatenationOfPrimaries /\ CommaBeforeClose)
        => WarnedOnly

\* C15: in a port list, a parameter list, the port declarations of a
\* modport item, a port-connection list and a concatenation, a comma
\* directly before the closing delimiter of a well-formed list gives a
\* Warning and no Error, and the parse of the list succeeds.
TrailingCommaAccepted ==
    /\ ParameterListComma
    /\ PortListComma
    /\ ModportItemComma
    /\ PortConnectionsComma
    /\ ConcatenationComma

(***************************************************************************)
(* A header without its semicolon.                                         *)
(***************************************************************************)
InDeclaration ==
    pc \in {"parse_module_decl", "module_item", "parse_interface_decl", "interface_item"}

MissingSemicolonMessages ==
    {"Missing ; after header of module", "Missing semicolon after header of interface"}

\* C16: when the semicolon after the name of a module or interface header
\* is missing, the header reports one Error for it and consumes no token in
\* its place; the body is parsed from the token after the name without a
\* further diagnostic, and the declaration is returned.
MissingSemicolonRecovered ==
    /\ [](source \in MissingSemicolonInputs =>
            /\ (InDeclaration \/ pc = "parse") =>
                  /\ Len(diagnostics) = 1
                  /\ diagnostics[1].severity = "Error"
                  /\ diagnostics[1].message[1] \in MissingSemicolonMessages
            /\ pc = "parse" =>
                  /\ Len(decls) = 1
                  /\ decls[1].name = "Foo"
                  /\ decls[1].span = Span(1, Len(source)))
    /\ [][(source \in MissingSemicolonInputs /\ pc = "parse_source_text" /\ InDeclaration') =>
            /\ input' - Len(queue') = 2
            /\ last_span' = Span(2, 2)]_vars

\* parse_source_text has returned the module of `module Foo initial ;
\* endmodule` with the one diagnostic of the missing semicolon.
MissingSemicolonWitness ==
    /\ pc = "parse"
    /\ source = <<Keyword("Module"), Ident("Foo"), Keyword("Initial"), Semicolon,
                  Keyword("Endmodule")>>
    /\ Len(decls) = 1
    /\ decls[1].span = Span(1, 5)
    /\ Len(diagnostics) = 1
    /\ diagnostics[1].message[1] = "Missing ; after header of module"

(***************************************************************************)
(* The labels of a block statement.                                        *)
(***************************************************************************)
StmtReturned == ret.op = "parse_stmt"

\* The places of the input: the statement label, the opening keyword, the
\* label after it, the closing keyword and the label after that.
StmtLabel  == IF source[1].k = "Ident" THEN <<source[1].v>> ELSE <<>>
OpenerPos  == IF StmtLabel = <<>> THEN 1 ELSE 3
OpenLabel  == IF source[OpenerPos + 1] = Colon THEN <<source[OpenerPos + 2].v>> ELSE <<>>
CloserPos  == CHOOSE i \in 1..Len(source) : source[i] \in BlockClosers
CloseLabel == IF CloserPos = Len(source) THEN <<>> ELSE <<source[Len(source)].v>>

\* The block holds null statements only and is closed by the keyword that
\* belongs to its opening keyword.
WellFormedBlock ==
    /\ \A i \in (OpenerPos + 1 + 2 * Len(OpenLabel))..(CloserPos - 1) : source[i] = Semicolon
    /\ IF source[OpenerPos] = OpenDelim("Bgend")
       THEN source[CloserPos] = CloseDelim("Bgend")
       ELSE source[CloserPos] \in JoinTerminators

\* The label established at the opening of the block.
EstablishedLabel == IF StmtLabel # <<>> THEN StmtLabel ELSE OpenLabel

\* The diagnostic i names the label l.
Names(i, l) ==
    \E j \in 1..Len(diagnostics[i].message) : diagnostics[i].message[j] = l[1]

\* C17: a well-formed block with one label at its opening (statement label
\* or block-open label) and a label after its closing keyword: an equal
\* label gives no diagnostic, a different label gives exactly one Error,
\* which names both labels.
BlockCloseLabel ==
    (/\ StmtReturned /\ WellFormedBlock
     /\ CloseLabel # <<>>
     /\ EstablishedLabel # <<>>
     /\ StmtLabel = <<>> \/ OpenLabel = <<>>) =>
        IF CloseLabel = EstablishedLabel
        THEN ret.val.res = "Ok" /\ diagnostics = <<>>
        ELSE /\ Cardinality(Diags("Error")) = 1
             /\ \A i \in Diags("Error") : Names(i, CloseLabel) /\ Names(i, EstablishedLabel)

\* C18: a well-formed block without a label at its opening and with a label
\* after its closing keyword gives exactly one Error, the one about a label
\* at the end of the block that is not at its beginning.
CloseLabelWithoutOpenLabel ==
    (/\ StmtReturned /\ WellFormedBlock
     /\ CloseLabel # <<>>
     /\ EstablishedLabel = <<>>) =>
        /\ Cardinality(Diags("Error")) = 1
        /\ \A i \in Diags("Error") :
              /\ diagnostics[i].message[1] =
                    "Block label provided at the end of the block, but not at the beginning"
              /\ Names(i, CloseLabel)

\* C19: a well-formed block with a statement label and a block-open label:
\* equal labels give exactly one Warning and no Error, different labels
\* exactly one Error; the statement returned has the statement label.
TwoOpenLabels ==
    (/\ StmtReturned /\ WellFormedBlock
     /\ StmtLabel # <<>>
     /\ OpenLabel # <<>>
     /\ CloseLabel = <<>>) =>
        /\ ret.val.res = "Ok"
        /\ ret.val.stmt.label = Some(StmtLabel[1])
        /\ IF OpenLabel = StmtLabel
           THEN Cardinality(Diags("Warning")) = 1 /\ Diags("Error") = {}
           ELSE Cardinality(Diags("Error")) = 1 /\ Diags("Warning") = {}

\* parse_stmt has returned on `foo : fork : bar ; join` with the label foo
\* and one Error.
TwoOpenLabelsWitness ==
    /\ StmtReturned
    /\ source = BlockStmt(<<"foo">>, Keyword("Fork"), <<"bar">>, <<<<Semicolon>>>>,
                          Keyword("Join"), <<>>)
    /\ ret.val.res = "Ok"
    /\ ret.val.stmt.label = Some("foo")
    /\ Cardinality(Diags("Error")) = 1

\* C20: a well-formed block without a statement label and with a label
\* after its opening keyword is accepted without an Error, and the
\* statement returned has that label.
BlockOwnLabel ==
    (/\ StmtReturned /\ WellFormedBlock
     /\ StmtLabel = <<>>
     /\ OpenLabel # <<>>
     /\ CloseLabel = <<>>) =>
        /\ ret.val.res = "Ok"
        /\ Diags("Error") = {}
        /\ ret.val.stmt.label = Some(OpenLabel[1])

(***************************************************************************)
(* Data types and dimensions.                                              *)
(***************************************************************************)
DataTypeReturned == ret.op = "parse_data_type"

\* C21: parse_data_type returns for the keyword `integer` and for the
\* keyword `longint` the same type data, that of `longint`.
IntegerIsLongint ==
    (DataTypeReturned /\ source # <<>>
       /\ source[1] \in {Keyword("Integer"), Keyword("Longint")}
       /\ ret.val.res = "Ok") =>
        ret.val.ty.data = TypeData(KeywordType("Longint"), "")

DimensionReturned == ret.op = "try_dimension"

\* The dimension at the head of the stream, if it is one of the four forms.
HeadForm == {d \in DimForms : Len(d) <= Len(source) /\ SubSeq(source, 1, Len(d)) = d}

FormKind(d) ==
    IF Len(d) = 2 THEN "Unsized"
    ELSE IF d[2] = Sym("Mul") THEN "Associative"
    ELSE IF \E i \in 1..Len(d) : d[i] = Colon THEN "Range"
    ELSE "Expr"

\* C22: on each of the four forms `[ ]`, `[ * ]`, `[ expr ]` and
\* `[ expr : expr ]` try_dimension succeeds without a diagnostic, has
\* consumed the tokens from `[` through `]` and no more, and returns the
\* dimension as unsized, associative, expression or range.
DimensionForms ==
    DimensionReturned =>
        \A d \in HeadForm :
            /\ ret.val.res = "Ok"
            /\ diagnostics = <<>>
            /\ input - Len(queue) = Len(d)
            /\ last_span = Span(Len(d), Len(d))
            /\ ret.val.dim = Some([dim |-> FormKind(d), span |-> Span(1, Len(d))])

(***************************************************************************)
(* Data declarations with an implicit type.                                *)
(***************************************************************************)
HierarchyItemReturned == ret.op = "try_hierarchy_item"

\* The input is one name, possibly with a dimension, and the semicolon or
\* the comma of a further name: `foo ;`, `foo [7:0] ;`, `foo , baz ;`.
NameOnlyDeclaration ==
    \E tdim \in DeclDims, end \in DeclEnds \ {<<>>} :
        source = <<Ident("foo")>> \o tdim \o end

\* C23: a data declaration whose parsed type is a single identifier that
\* no further identifier follows before the separator or the terminator is
\* accepted, as a variable of implicit type, without an Error.
ImplicitTypeReinterpreted ==
    (HierarchyItemReturned /\ NameOnlyDeclaration) =>
        /\ ret.val.res = "Ok"
        /\ Diags("Error") = {}

(***************************************************************************)
(* Expression forms that are not implemented.                              *)
(***************************************************************************)
ExprReturned == ret.op = "parse_expr"

\* C24: on a streaming concatenation, a call expression and a tagged
\* expression the expression parser reports an Error and returns failure.
UnimplementedExpressionsFail ==
    (ExprReturned /\ source \in StreamingConcatenations \cup CallExpressions \cup
                                 TaggedExpressions) =>
        /\ ret.val.res = "Err"
        /\ Diags("Error") # {}

(***************************************************************************)
(* The diagnostic sink.                                                    *)
(***************************************************************************)
IsPrefix(s, t) == Len(s) <= Len(t) /\ SubSeq(t, 1, Len(s)) = s

\* C25: every step of a parse leaves the diagnostics reported so far in
\* place and in order, adding new ones at the end only, and is_fatal is
\* false in every state, whatever has been reported.
DiagnosticsAppendOnly ==
    /\ [][IsPrefix(diagnostics, diagnostics')]_vars
    /\ [](~is_fatal(P))

\* parse_source_text has returned with three diagnostics, Errors among
\* them, and is_fatal is false.
DiagnosticsAppendOnlyWitness ==
    /\ pc = "parse"
    /\ Len(diagnostics) = 3
    /\ diagnostics[1] # diagnostics[2]
    /\ Diags("Error") # {}
    /\ ~is_fatal(P)

(***************************************************************************)
(* The calls of the lexer at end-of-input.                                 *)
(***************************************************************************)
\* The lexer has produced end-of-input.
LexerExhausted == input > Len(source)

\* The tokens pushed onto the queue by the step: a peek pops nothing, a
\* bump pops one token.
Pushed == Len(queue') - Len(queue) + (IF ret'.op = "bump" THEN 1 ELSE 0)

\* The tokens of the stream that the lexer delivers in the step.
Delivered == RealCount(Min2(input', Len(source))) - RealCount(Min2(input, Len(source)))

\* How often the lexer returns end-of-input in the step: every token it
\* returns is pushed onto the queue.
EofCalls == Pushed - Delivered

\* C26: once the lexer has produced end-of-input and it is the tail of the
\* queue, no later peek(k) or bump calls the lexer, and a step in which
\* the lexer produces end-of-input calls it no further: the lexer returns
\* end-of-input once.
NoLexerCallAfterEof ==
    [][EofCalls <= (IF LexerExhausted THEN 0 ELSE 1)]_vars

\* C27: in every state after the lexer has produced end-of-input, the queue
\* is not empty and holds the end-of-input token.
EofStaysQueued ==
    LexerExhausted =>
        /\ queue # <<>>
        /\ \E i \in 1..Len(queue) : queue[i].tkn = Eof


(***************************************************************************)
(* The recovery engine called on its own: recover and recover_balanced on  *)
(* short token streams, with the terminators and eat_terminator of their   *)
(* call sites, and parse_parameter_port_list on a failed assignment.       *)
(***************************************************************************)
MaxRecover == 4    \* longest token stream handed to a recovery function

RecoverTokens ==
    {OpenDelim("Paren"), CloseDelim("Paren"), OpenDelim("Brack"), CloseDelim("Brack"),
     Comma, Ident("a")}

\* <<terminators, eat_terminator>> as the callers pass them.
RecoverArgs ==
    {<<{Comma, CloseDelim("Paren")}, FALSE>>, <<{CloseDelim("Paren")}, TRUE>>,
     <<{CloseDelim("Brack")}, TRUE>>}

\* `( parameter bad = ( 1 + , parameter ok = 2 )`, the list after the `#`.
UnclosedDefault ==
    <<OpenDelim("Paren"), Keyword("Parameter"), Ident("bad"), Assign,
      OpenDelim("Paren"), UnsignedNumber(1), Sym("Add"), Comma,
      Keyword("Parameter"), Ident("ok"), Assign, UnsignedNumber(2),
      CloseDelim("Paren")>>

CallRecover ==
    /\ pc = "recover"
    /\ \E a \in RecoverArgs :
          /\ SetP(recover(P, a[1], a[2]))
          /\ ret' = [op |-> "recover", k |-> 0,
                     val |-> [res |-> "Ok", n |-> 0,
                              terminators |-> a[1], eat_terminator |-> a[2]]]
    /\ pc' = "returned"
    /\ UNCHANGED <<source, cur, decls>>

CallRecoverBalanced ==
    /\ pc = "recover"
    /\ \E a \in RecoverArgs :
          /\ SetP(recover_balanced(P, a[1], a[2]))
          /\ ret' = [op |-> "recover_balanced", k |-> 0,
                     val |-> [res |-> "Ok", n |-> 0,
                              terminators |-> a[1], eat_terminator |-> a[2]]]
    /\ pc' = "returned"
    /\ UNCHANGED <<source, cur, decls>>

InitRecover ==
    /\ NewParser
    /\ cur = NoCur
    /\ decls = <<>>
    /\ ret = NoRet
    /\ \/ /\ pc = "recover"
          /\ \E n \in 0..MaxRecover : \E f \in [1..n -> RecoverTokens] : source = f
       \/ /\ pc = "parse_parameter_port_list"
          /\ source = UnclosedDefault

NextRecover ==
    \/ CallRecover
    \/ CallRecoverBalanced
    \/ CallParameterPortList

SpecRecover == InitRecover /\ [][NextRecover]_vars

\* The calls are sequential code: a call that can be made is made.
FairSpecRecover == SpecRecover /\ WF_vars(NextRecover)

\* Tokens taken off the queue since Parser::new (each refill of these calls
\* asks for one token).
Bumped == input - Len(queue)

Opens(i, j)  == Cardinality({m \in i..j : source[m].k = "OpenDelim"})
Closes(i, j) == Cardinality({m \in i..j : source[m].k = "CloseDelim"})

\* The opening delimiter at i has no closing delimiter among tokens i..c.
Unclosed(i, c) ==
    /\ source[i].k = "OpenDelim"
    /\ \A j \in i..c : Opens(i, j) > Closes(i, j)

\* The stack of recover_balanced is empty after it passed tokens 1..c.
StackEmptyAfter(c) == \A i \in 1..c : ~Unclosed(i, c)

RecoverBalancedReturned == pc = "returned" /\ ret.op = "recover_balanced"

\* recover_balanced returned without a diagnostic and not at end-of-input
\* (which it leaves in the queue; an eaten terminator leaves the queue empty).
StoppedAtTerminator ==
    /\ RecoverBalancedReturned
    /\ diagnostics = <<>>
    /\ \/ ~ret.val.eat_terminator /\ Bumped < Len(source)
       \/ ret.val.eat_terminator /\ queue = <<>>

\* The position of the terminator recover_balanced stopped at.
TerminatorPos == IF ret.val.eat_terminator THEN Bumped ELSE Bumped + 1

\* C28: recover_balanced stops at a terminator only when the stack of
\* delimiters opened since the start of recovery is empty: the token it
\* stops at has no unclosed opening delimiter before it, and every
\* terminator it passed over lay inside such a group; on
\* `( parameter bad = ( 1 + , parameter ok = 2 )` the recovery from the
\* failed assignment passes the comma inside the unclosed parenthesis.
TerminatorAtEmptyStack ==
    /\ StoppedAtTerminator =>
          /\ source[TerminatorPos] \in ret.val.terminators
          /\ StackEmptyAfter(TerminatorPos - 1)
    /\ RecoverBalancedReturned =>
          \A j \in 1..Bumped :
              (source[j] \in ret.val.terminators /\ StackEmptyAfter(j - 1))
                  => (ret.val.eat_terminator /\ j = Bumped)
    /\ (pc = "returned" /\ source = UnclosedDefault) => Bumped > 8

TerminatorAtEmptyStackWitness ==
    /\ StoppedAtTerminator
    /\ ~ret.val.eat_terminator
    /\ \E j \in 1..Bumped : source[j] = Comma
    /\ source[Bumped + 1] = Comma

UnclosedDefaultWitness ==
    /\ pc = "returned"
    /\ source = UnclosedDefault
    /\ Bumped = Len(source)

\* C29: recover_balanced never leaves the cursor inside an unbalanced group:
\* however it returns, the tokens it consumed hold no opening delimiter
\* whose closing delimiter was not consumed as well.
ConsumedBalanced == RecoverBalancedReturned => StackEmptyAfter(Bumped)

RecoveryCalled == pc = "recover"

RecoveryReturned == pc = "returned" /\ ret.op \in {"recover", "recover_balanced"}

\* The end-of-input token has not been consumed: it is still in the queue
\* when the lexer has produced it, and it is not the token bumped last.
EofNotConsumed ==
    /\ Bumped <= Len(source)
    /\ last_span # EofSpan
    /\ input > Len(source) => queue = <<TS(Eof, EofSpan)>>

\* Every token consumed was a token before end-of-input, one at a time: the
\* token bumped last is the last of the Bumped tokens consumed.
ConsumedBeforeEof ==
    /\ Bumped = 0 => last_span = INVALID_SPAN
    /\ Bumped > 0 => last_span = Span(Bumped, Bumped)

\* C30: recover and recover_balanced terminate on every finite token stream
\* and consume at most the tokens before end-of-input, never the
\* end-of-input token.
RecoveryTerminates ==
    /\ RecoveryCalled ~> RecoveryReturned
    /\ [](RecoveryReturned => (EofNotConsumed /\ ConsumedBeforeEof))

RecoveryTerminatesWitness ==
    /\ RecoveryReturned
    /\ ret.op = "recover"
    /\ Bumped = MaxRecover
    /\ Len(source) = MaxRecover
    /\ queue = <<TS(Eof, EofSpan)>>

RecoverBalancedAtEofWitness ==
    /\ RecoverBalancedReturned
    /\ Bumped = Len(source)
    /\ Len(source) >= 2
    /\ queue = <<TS(Eof, EofSpan)>>
    /\ ~StackEmptyAfter(Bumped)

(***************************************************************************)
(* Postconditions of the recovery functions.                               *)
(***************************************************************************)
RecoverReturned == pc = "returned" /\ ret.op = "recover"

\* The call stopped with end-of-input as the next token.
AtEndOfInput == Bumped = Len(source) /\ queue = <<TS(Eof, EofSpan)>>

\* The call consumed the terminator it reached: the bump left the queue empty.
TerminatorEaten == ret.val.eat_terminator /\ queue = <<>> /\ Bumped >= 1

\* The tokens the call skipped: those consumed before the one it stopped at.
Skipped == IF TerminatorEaten THEN Bumped - 1 ELSE Bumped

\* C31: when recover(set, eat) returns, the next token is end-of-input or a
\* token of set was reached, the next token when eat is false and the last
\* consumed when eat is true; no skipped token is in set, and when the first
\* token is in set and eat is false nothing is consumed.
SkipToTerminator ==
    RecoverReturned =>
        /\ \/ AtEndOfInput
           \/ /\ ~ret.val.eat_terminator
              /\ Bumped < Len(source)
              /\ source[Bumped + 1] \in ret.val.terminators
           \/ /\ TerminatorEaten
              /\ source[Bumped] \in ret.val.terminators
        /\ \A j \in 1..Skipped : source[j] \notin ret.val.terminators
        /\ (source # <<>> /\ source[1] \in ret.val.terminators /\ ~ret.val.eat_terminator)
              => Bumped = 0

SkipToTerminatorWitness ==
    /\ RecoverReturned
    /\ ~ret.val.eat_terminator
    /\ Bumped = 2
    /\ Len(source) >= 3
    /\ source[1].k = "OpenDelim"
    /\ source[3] \in ret.val.terminators

SkipToTerminatorEatenWitness ==
    /\ RecoverReturned
    /\ TerminatorEaten
    /\ Bumped = 3
    /\ Len(source) = 4

\* The most recent opening delimiter among tokens 1..c that is not closed
\* there: the top of the stack of recover_balanced (0 when it is empty).
TopOpen(c) ==
    LET open == {i \in 1..c : Unclosed(i, c)} IN
    IF open = {} THEN 0 ELSE CHOOSE i \in open : \A m \in open : m <= i

\* The closing delimiter at j pairs with the top of the stack before it.
ClosesTop(j) ==
    /\ source[j].k = "CloseDelim"
    /\ TopOpen(j - 1) > 0
    /\ source[TopOpen(j - 1)].v = source[j].v

\* The token at j is a terminator met with the stack empty.
TerminatorAtDepthZero(j) ==
    source[j] \in ret.val.terminators /\ StackEmptyAfter(j - 1)

\* C32: in recover_balanced a closing delimiter that does not match the most
\* recent opening delimiter, or that has none (and is not a terminator at
\* depth zero), gives exactly one Error diagnostic and ends the recovery at
\* once without being consumed; every closing delimiter passed over paired
\* with its opening delimiter.
ClosingMismatchAborts ==
    RecoverBalancedReturned =>
        /\ \A j \in 1..Skipped : source[j].k = "CloseDelim" => ClosesTop(j)
        /\ Len(diagnostics) <= 1
        /\ diagnostics # <<>> =>
              /\ diagnostics[1].severity = "Error"
              /\ Bumped < Len(source)
              /\ queue = <<TS(source[Bumped + 1], Span(Bumped + 1, Bumped + 1))>>
              /\ source[Bumped + 1].k = "CloseDelim"
              /\ ~ClosesTop(Bumped + 1)
              /\ ~TerminatorAtDepthZero(Bumped + 1)
        /\ (diagnostics = <<>> /\ Bumped < Len(source) /\ queue # <<>>
               /\ source[Bumped + 1].k = "CloseDelim")
              => TerminatorAtDepthZero(Bumped + 1)

\* `( a ]`: the mismatched closing bracket is reported and left in place.
ClosingMismatchWitness ==
    /\ RecoverBalancedReturned
    /\ Len(diagnostics) = 1
    /\ Bumped = 2
    /\ TopOpen(2) = 1
    /\ Len(source) >= 3
    /\ source[3].k = "CloseDelim"
    /\ source[3].v # source[1].v

\* `a ]` with `)` as the terminator: a closing delimiter without an opening.
ClosingUnmatchedWitness ==
    /\ RecoverBalancedReturned
    /\ Len(diagnostics) = 1
    /\ Bumped = 1
    /\ StackEmptyAfter(1)
    /\ diagnostics[1].message[1] = "Found closing without an earlier opening"

(***************************************************************************)
(* The closing keyword of a block statement.                               *)
(***************************************************************************)
\* parse_stmt returned a sequential or parallel block.
BlockReturned ==
    /\ pc = "returned"
    /\ StmtReturned
    /\ ret.val.res = "Ok"
    /\ ret.val.stmt.data.kind \in {"SequentialBlock", "ParallelBlock"}

\* C33: after parse_stmt returns successfully for a sequential or parallel
\* block, the closing keyword has been consumed (the cursor stands after it,
\* or after the label that follows it) and, without such a label, the
\* statement's span ends at the closing keyword.
BlockCloserConsumed ==
    BlockReturned =>
        /\ Consumed >= CloserPos
        /\ CloseLabel = <<>> =>
              /\ Consumed = CloserPos
              /\ ret.val.stmt.span.end = CloserPos

(***************************************************************************)
(* Expressions: operator precedence, parentheses, concatenations.          *)
(***************************************************************************)
ExprPrecReturned == pc = "returned" /\ ret.op = "parse_expr_prec"

\* The BinaryOp an operator token stands for, by the names of the enum.
BinaryOpOf(tkn) ==
    IF tkn.k \in {"Add", "Sub", "Mul", "Div", "Mod", "Shl", "Shr", "Pow"} THEN tkn.k
    ELSE "Stuff"

\* The precedence parse_expr_prec computes for an operator token.
ComputedPrecedence(tkn) == get_precedence(as_binary_operator(tkn).v)

\* C34: in parse_expr_prec a binary operator token is consumed only when
\* the operator's precedence is at least the minimum precedence of the
\* call; otherwise the call returns success with only the left operand
\* consumed and the operator as the next token.
OperatorPrecedenceRespected ==
    (ExprPrecReturned /\ Len(source) = 3) =>
        LET prec == get_precedence(BinaryOpOf(source[2])) IN
        /\ Consumed > 1 => prec >= ret.val.precedence
        /\ prec < ret.val.precedence =>
              /\ ret.val.res = "Ok"
              /\ Consumed = 1
              /\ queue[1].tkn = source[2]

PrimaryReturned == pc = "returned" /\ ret.op = "parse_primary_expr"

\* The colons of the input that lie directly between the outer parentheses.
OuterColons ==
    {i \in 2..(Len(source) - 1) : source[i] = Colon /\ StackEmptyAfter(i) = FALSE
                                  /\ TopOpen(i) = 1}

ParenthesizedInput ==
    source[1] = OpenDelim("Paren") /\ source[Len(source)] = CloseDelim("Paren")

\* An expression of the inputs parsed outside parentheses is accepted whole.
OperandAccepted ==
    (pc = "returned" /\ ExprReturned /\ source \in ParenOperands) =>
        ret.val.res = "Ok" /\ diagnostics = <<>> /\ Consumed = Len(source)

\* C35: parse_primary_expr accepts `( e )` and `( e : e : e )` without
\* diagnostics and consumes through the closing `)`, for every expression e
\* that is accepted outside parentheses, a binary operation included; the
\* form with one colon `( e : e )` is reported as an error.
ParenthesizedPrimary ==
    /\ OperandAccepted
    /\ (PrimaryReturned /\ ParenthesizedInput) =>
          IF Cardinality(OuterColons) \in {0, 2}
          THEN ret.val.res = "Ok" /\ diagnostics = <<>> /\ Consumed = Len(source)
          ELSE ret.val.res = "Err" /\ Diags("Error") # {}

\* The input is `{ a, b, ... }` with single tokens as elements.
PlainConcatenationInput ==
    /\ source[1] = OpenDelim("Brace")
    /\ Len(source) % 2 = 1
    /\ \A i \in 2..(Len(source) - 1) :
          IF i % 2 = 0 THEN <<source[i]>> \in PrimaryChoices ELSE source[i] = Comma
    /\ source[Len(source)] = CloseDelim("Brace")

\* The input is `{ n { a, b, ... } }` with single tokens as n and as elements.
MultipleConcatenationInput ==
    /\ Len(source) >= 6
    /\ source[1] = OpenDelim("Brace")
    /\ <<source[2]>> \in PrimaryChoices
    /\ source[3] = OpenDelim("Brace")
    /\ Len(source) % 2 = 0
    /\ \A i \in 4..(Len(source) - 2) :
          IF i % 2 = 0 THEN <<source[i]>> \in PrimaryChoices ELSE source[i] = Comma
    /\ source[Len(source) - 1] = CloseDelim("Brace")
    /\ source[Len(source)] = CloseDelim("Brace")

\* The input is `{ n { a } , b }`: a `{` after the first expression, and an
\* element after the inner `}` as in the plain form.
MixedConcatenationInput ==
    /\ Len(source) = 8
    /\ source[3] = OpenDelim("Brace")
    /\ source[5] = CloseDelim("Brace")
    /\ source[6] = Comma

\* C36: after `{` and the first expression a following `{` selects the
\* multiple concatenation `{ n { a, b, ... } }` and anything else the plain
\* form `{ a, b, c }`; both forms, with primaries as elements, parse without
\* diagnostics and are consumed through the outer `}`.
ConcatenationForms ==
    PrimaryReturned =>
        /\ (PlainConcatenationInput \/ MultipleConcatenationInput) =>
              ret.val.res = "Ok" /\ diagnostics = <<>> /\ Consumed = Len(source)
        /\ MixedConcatenationInput => ret.val.res = "Err"

ConcatenationFormsWitness ==
    /\ PrimaryReturned
    /\ MultipleConcatenationInput
    /\ Len(source) = 8
    /\ Consumed = 8
    /\ diagnostics = <<>>

PlainConcatenationWitness ==
    /\ PrimaryReturned
    /\ PlainConcatenationInput
    /\ Len(source) = 7
    /\ Consumed = 7

(***************************************************************************)
(* The two failure channels.                                               *)
(***************************************************************************)
\* The functions of the calls that return a ReportedResult.
ReportedFunctions ==
    {"parse_parameter_port_list", "parse_port_list", "parse_modport_item",
     "parse_list_of_port_connections", "parse_expr", "parse_expr_prec",
     "parse_primary_expr", "parse_stmt", "parse_data_type", "try_dimension",
     "try_hierarchy_item"}

\* C37: whenever a function with a ReportedResult return type returns Err,
\* at least one diagnostic was appended during the call: the list, empty at
\* entry, is not empty at return.
ReportedFailure ==
    (pc = "returned" /\ ret.op \in ReportedFunctions /\ ret.val.res = "Err") =>
        Len(diagnostics) > 0

\* parse_modport_item fails on the name its port declaration lacks.
ReportedFailureWitness ==
    /\ pc = "returned"
    /\ ret.op = "parse_modport_item"
    /\ ret.val.res = "Err"
    /\ Len(diagnostics) = 1
    /\ diagnostics[1].message[1] = "Expected"

(***************************************************************************)
(* The lower parse primitives on the cursor: any sequence of peek, bump,   *)
(* require and eat_ident_or calls on any short lexer stream.               *)
(***************************************************************************)
PrimitiveAlphabet == {Ident("a"), EscIdent("b"), Semicolon, LexError}

RequireTokens == {Semicolon, Ident("a")}

InitPrimitives ==
    /\ \E n \in 0..MaxStream : \E f \in [1..n -> PrimitiveAlphabet] : source = f
    /\ NewParser
    /\ pc = "cursor"
    /\ cur = NoCur
    /\ decls = <<>>
    /\ ret = NoRet

Require(expect) ==
    /\ pc = "cursor"
    /\ \E r \in {require(P, expect)} :
          /\ SetP(r.p)
          /\ ret' = [op |-> "require", k |-> 0,
                     val |-> [res |-> r.res, n |-> 0,
                              diag |-> IF r.res = "Err" THEN r.val ELSE Void]]
    /\ UNCHANGED <<source, pc, cur, decls>>

EatIdentOr ==
    /\ pc = "cursor"
    /\ \E r \in {eat_ident_or(P, "name")} :
          /\ SetP(r.p)
          /\ ret' = [op |-> "eat_ident_or", k |-> 0,
                     val |-> [res |-> r.res, n |-> 0,
                              diag |-> IF r.res = "Err" THEN r.val ELSE Void]]
    /\ UNCHANGED <<source, pc, cur, decls>>

NextPrimitives ==
    \/ \E k \in 0..MaxOffset : Peek(k)
    \/ Bump
    \/ \E expect \in RequireTokens : Require(expect)
    \/ EatIdentOr

SpecPrimitives == InitPrimitives /\ [][NextPrimitives]_vars

\* The step is a call of require or eat_ident_or.
PrimitiveCall == ret'.op \in {"require", "eat_ident_or"}

\* The diagnostics the step appended.
Appended == SubSeq(diagnostics', Len(diagnostics) + 1, Len(diagnostics'))

\* The cursor as the caller sees it is where it was.
CursorUnchanged ==
    /\ Consumed' = Consumed
    /\ last_span' = last_span
    /\ \A j \in Offsets : Upcoming(j)' = Upcoming(j)

\* The failure returned a diagnostic value, an Error.
DiagnosticReturned == ret'.val.diag # Void /\ ret'.val.diag.severity = "Error"

\* The statement as it stands: a failing require or eat_ident_or returns a
\* diagnostic and leaves the cursor, last_span and the diagnostic list
\* alone; a successful one consumes one token and appends no diagnostic.
UnreportedFailureUnchanged ==
    [][PrimitiveCall =>
          IF ret'.val.res = "Err"
          THEN DiagnosticReturned /\ CursorUnchanged /\ diagnostics' = diagnostics
          ELSE Consumed' = Consumed + 1 /\ diagnostics' = diagnostics]_vars

\* C38: a failing require or eat_ident_or returns a diagnostic value and
\* leaves the cursor and last_span alone, a successful one consumes exactly
\* one token; in both cases the only diagnostics appended are the lexer
\* errors met while fetching the token looked at, never its own.
UnreportedFailure ==
    [][PrimitiveCall =>
          /\ IsPrefix(diagnostics, diagnostics')
          /\ \A i \in 1..Len(Appended) : Appended[i].message = <<"lexer error">>
          /\ IF ret'.val.res = "Err"
             THEN DiagnosticReturned /\ CursorUnchanged
             ELSE /\ Consumed' = Consumed + 1
                  /\ last_span' = Upcoming(0).sp
                  /\ \A j \in Offsets : Upcoming(j)' = Upcoming(j + 1)]_vars

\* A require has failed after one token was consumed, the lexer error before
\* the token it looked at reported.
UnreportedFailureWitness ==
    /\ ret.op = "require"
    /\ ret.val.res = "Err"
    /\ Consumed = 1
    /\ last_span # INVALID_SPAN
    /\ Len(diagnostics) = 1

\* C39: peek never fails: after ensure_queue_filled(k) the queue is not
\* empty, for every offset k and every state of the cursor, so the `expect`
\* of peek on the back of the queue is never triggered.
PeekNeverFails ==
    ret.op = "peek" =>
        /\ queue # <<>>
        /\ ret.val # ExpectFailed
        /\ ret.k >= Len(queue) => ret.val = queue[Len(queue)]

\* A peek past the end of the queue took the token at its back.
PeekNeverFailsWitness ==
    /\ ret.op = "peek"
    /\ ret.k >= Len(queue)
    /\ ret.k = MaxOffset
    /\ ret.val.tkn = Eof
    /\ Len(diagnostics) > 0

(***************************************************************************)
(* Recovery in a localparam declaration.                                   *)
(***************************************************************************)
\* The input is a localparam declaration with one semicolon at position i,
\* its own, before what follows it.
LocalparamInput(i) ==
    /\ source[1] = Keyword("Localparam")
    /\ i \in 1..Len(source)
    /\ source[i] = Semicolon
    /\ \A j \in 1..(i - 1) : source[j] # Semicolon

\* The constant expression of an assignment of the declaration failed.
ConstantExprFailed ==
    \E d \in 1..Len(diagnostics) :
        diagnostics[d].message = <<"Expected constant primary expression">>

\* C40: when the constant expression of a localparam assignment fails, the
\* recovery of the declaration stops no later than the semicolon that ends
\* the declaration: no token after that semicolon is consumed.
LocalparamRecoveryStopsAtSemicolon ==
    \A i \in 1..Len(source) :
        (HierarchyItemReturned /\ LocalparamInput(i) /\ ConstantExprFailed) =>
            Consumed <= i
====
